---- MODULE Spec2Model ----
(***************************************************************************)
(* A model of restructure_directory(source_dir, target_dir), the folder    *)
(* classification-and-remapping engine of src/restructure.py (with the     *)
(* points where src/v2restructure.py differs).                             *)
(*                                                                         *)
(* A name is a string, a path is a tuple of names relative to the tree it  *)
(* lives in, and a tree is a function from paths to entries                *)
(* [kind, data]: kind is "dir" or "file", and the data of a file is the    *)
(* path of the source file its bytes were read from, so that a copy is     *)
(* recognisable by its content.                                            *)
(***************************************************************************)
EXTENDS Integers, Sequences, FiniteSets, TLC

VARIABLES
    variant,    \* which source file runs: "restructure" or "v2"
    enumRev,    \* os.listdir's enumeration order: FALSE ascending, TRUE descending
    source0,    \* the tree under source_dir before the invocation
    source,     \* the tree under source_dir now
    out,        \* the tree under <target_dir>/<unique-id>
    pc,         \* the position of the invocation in restructure_directory
    suts,       \* the list `suts` of raw SUT folder names, in discovery order
    sutIdx,     \* position of the `for sut in suts` loop (1-based)
    log_subfolders, \* single-system: the sorted run folders of Logs
    num_runs,   \* single-system: the number of runs derived from Logs
    wp_artifact, \* single-system: [path, is_tar, temp] of the chosen artifact, or NoArtifact
    invocation, \* 1 for the first call of restructure_directory, 2 for a repeated call
    first_out   \* the tree the first call produced, kept for comparison with the second

vars == <<variant, enumRev, source0, source, out, pc, suts, sutIdx,
          log_subfolders, num_runs, wp_artifact, invocation, first_out>>

-----------------------------------------------------------------------------
(* Characters and strings, as Python's str methods compute them.           *)

\* The characters of the names, in code-point order.
AsciiOrder == "-.0123456789ABCDEFGHIJKLMNOPQRSTUVWXYZ_abcdefghijklmnopqrstuvwxyz"

UpperAlpha == "ABCDEFGHIJKLMNOPQRSTUVWXYZ"

LowerAlpha == "abcdefghijklmnopqrstuvwxyz"

DigitChars == "0123456789"

CharAt(s, i) == SubSeq(s, i, i)

IndexIn(alphabet, c) ==
    IF \E i \in 1..Len(alphabet) : CharAt(alphabet, i) = c
    THEN CHOOSE i \in 1..Len(alphabet) : CharAt(alphabet, i) = c
    ELSE 0

CharSet == {CharAt(AsciiOrder, i) : i \in 1..Len(AsciiOrder)}

\* ord(c), up to the gaps between the characters used
OrdTable == [c \in CharSet |-> IndexIn(AsciiOrder, c)]

Ord(c) == OrdTable[c]

DigitSet == {CharAt(DigitChars, i) : i \in 1..Len(DigitChars)}

IsDigit(c) == c \in DigitSet

LowerTable ==
    [c \in CharSet |->
        IF IndexIn(UpperAlpha, c) > 0 THEN CharAt(LowerAlpha, IndexIn(UpperAlpha, c)) ELSE c]

LowerChar(c) == LowerTable[c]

RECURSIVE Lower(_)
Lower(s) == IF s = "" THEN "" ELSE LowerChar(CharAt(s, 1)) \o Lower(Tail(s))

StartsWith(s, prefix) ==
    Len(s) >= Len(prefix) /\ SubSeq(s, 1, Len(prefix)) = prefix

EndsWith(s, suffix) ==
    Len(s) >= Len(suffix) /\ SubSeq(s, Len(s) - Len(suffix) + 1, Len(s)) = suffix

\* s[n:]
DropPrefix(s, n) == SubSeq(s, n + 1, Len(s))

\* ''.join(filter(str.isdigit, s))
RECURSIVE DigitsOf(_)
DigitsOf(s) ==
    IF s = "" THEN ""
    ELSE (IF IsDigit(CharAt(s, 1)) THEN CharAt(s, 1) ELSE "") \o DigitsOf(Tail(s))

\* s.find(sub) + 1: the 1-based position of the first occurrence, 0 when absent
Find(s, sub) ==
    LET hits == {i \in 1..(Len(s) - Len(sub) + 1) : SubSeq(s, i, i + Len(sub) - 1) = sub}
    IN IF hits = {} THEN 0 ELSE CHOOSE i \in hits : \A j \in hits : i <= j

Contains(s, sub) == Find(s, sub) > 0

\* s.split(sep)[0]
BeforeFirst(s, sep) ==
    IF Contains(s, sep) THEN SubSeq(s, 1, Find(s, sep) - 1) ELSE s

\* s.split(sep)[1], for s containing sep: the text between the first
\* occurrence of sep and the next one (or the end)
SplitSecond(s, sep) ==
    BeforeFirst(DropPrefix(s, Find(s, sep) + Len(sep) - 1), sep)

\* int(s) for a non-empty string of digits
RECURSIVE ParseInt(_)
ParseInt(s) ==
    IF s = "" THEN 0
    ELSE 10 * ParseInt(SubSeq(s, 1, Len(s) - 1)) + (IndexIn(DigitChars, CharAt(s, Len(s))) - 1)

\* str(n) for n >= 0
RECURSIVE IntToStr(_)
IntToStr(n) ==
    IF n < 10 THEN CharAt(DigitChars, n + 1)
    ELSE IntToStr(n \div 10) \o CharAt(DigitChars, (n % 10) + 1)

\* a < b for Python strings: lexicographic by code point
StrLess(a, b) ==
    LET n == IF Len(a) < Len(b) THEN Len(a) ELSE Len(b)
        diff == {i \in 1..n : CharAt(a, i) # CharAt(b, i)}
    IN IF diff = {} THEN Len(a) < Len(b)
       ELSE LET i == CHOOSE k \in diff : \A j \in diff : k <= j
            IN Ord(CharAt(a, i)) < Ord(CharAt(b, i))

\* sorted(S) for a set of distinct names
Sorted(S) ==
    [i \in 1..Cardinality(S) |->
        CHOOSE x \in S : Cardinality({y \in S : StrLess(y, x)}) = i - 1]

Reverse(s) == [i \in 1..Len(s) |-> s[Len(s) + 1 - i]]

RECURSIVE Flatten(_)
Flatten(ss) == IF ss = <<>> THEN <<>> ELSE Head(ss) \o Flatten(Tail(ss))

Range(s) == {s[i] : i \in 1..Len(s)}

-----------------------------------------------------------------------------
(* Trees: os.path.exists / isdir / isfile / listdir.                        *)

DirEntry == [kind |-> "dir", data |-> <<>>]

FileEntry(d) == [kind |-> "file", data |-> d]

EmptyTree == <<>>

Exists(fs, p) == p \in DOMAIN fs

IsDir(fs, p) == p \in DOMAIN fs /\ fs[p].kind = "dir"

IsFile(fs, p) == p \in DOMAIN fs /\ fs[p].kind = "file"

BaseName(p) == p[Len(p)]

Parent(p) == SubSeq(p, 1, Len(p) - 1)

IsPrefix(p, q) == Len(p) <= Len(q) /\ SubSeq(q, 1, Len(p)) = p

ChildNames(fs, p) ==
    {BaseName(q) : q \in {q \in DOMAIN fs : Len(q) = Len(p) + 1 /\ IsPrefix(p, q)}}

\* os.listdir(p): the names in the enumeration order of this run
ListDirIn(rev, fs, p) ==
    IF rev THEN Reverse(Sorted(ChildNames(fs, p))) ELSE Sorted(ChildNames(fs, p))

ListDir(fs, p) == ListDirIn(enumRev, fs, p)

-----------------------------------------------------------------------------
(* Filesystem writes.  A write either succeeds and yields the new tree or  *)
(* raises OSError (ok = FALSE) and leaves the tree as it was.              *)

Prefixes(p) == {SubSeq(p, 1, n) : n \in 0..Len(p)}

\* os.makedirs(p, exist_ok)
MakeDirsOk(fs, p, exist_ok) ==
    /\ \A q \in Prefixes(p) \ {p} : Exists(fs, q) => IsDir(fs, q)
    /\ Exists(fs, p) => (exist_ok /\ IsDir(fs, p))

MakeDirs(fs, p) ==
    [q \in (DOMAIN fs) \cup Prefixes(p) |-> IF q \in DOMAIN fs THEN fs[q] ELSE DirEntry]

\* the write of shutil.copy(src, dstdir) to p = dstdir/basename(src)
WriteFileOk(fs, p) == IsDir(fs, Parent(p)) /\ ~IsDir(fs, p)

WriteFile(fs, p, d) ==
    [q \in (DOMAIN fs) \cup {p} |-> IF q = p THEN FileEntry(d) ELSE fs[q]]

\* shutil.rmtree(p, ignore_errors=True)
RmTree(fs, p) ==
    [q \in {q \in DOMAIN fs : ~IsPrefix(p, q)} |-> fs[q]]

\* shutil.copytree(src/sp, dp, dirs_exist_ok): makedirs(dp), then every entry
\* of sp in enumeration order, a subdirectory by a nested copytree.  A failure
\* below the top-level makedirs is collected (err) while the remaining entries
\* are still copied, and raised at the end.
RECURSIVE CopyTree(_, _, _, _, _, _)
RECURSIVE CopyTreeEntries(_, _, _, _, _, _, _)
CopyTree(rev, src, fs, sp, dp, exist_ok) ==
    IF ~MakeDirsOk(fs, dp, exist_ok)
    THEN [fs |-> fs, err |-> TRUE]
    ELSE CopyTreeEntries(rev, src, MakeDirs(fs, dp), sp, dp, exist_ok, ListDirIn(rev, src, sp))

CopyTreeEntries(rev, src, fs, sp, dp, exist_ok, names) ==
    IF names = <<>> THEN [fs |-> fs, err |-> FALSE]
    ELSE LET n == Head(names)
             one == IF IsDir(src, sp \o <<n>>)
                    THEN CopyTree(rev, src, fs, sp \o <<n>>, dp \o <<n>>, exist_ok)
                    ELSE IF WriteFileOk(fs, dp \o <<n>>)
                         THEN [fs |-> WriteFile(fs, dp \o <<n>>, src[sp \o <<n>>].data),
                               err |-> FALSE]
                         ELSE [fs |-> fs, err |-> TRUE]
             rest == CopyTreeEntries(rev, src, one.fs, sp, dp, exist_ok, Tail(names))
         IN [fs |-> rest.fs, err |-> one.err \/ rest.err]

(* The steps a section of restructure_directory performs, in order.        *)
OpMakeDirs(t, p) == [op |-> "makedirs", tree |-> t, path |-> p, data |-> <<>>, exist_ok |-> TRUE]

\* shutil.copy(source/sp, dstdir); a source that is a directory raises
OpCopy(src, sp, dstdir) ==
    IF IsFile(src, sp)
    THEN [op |-> "copy", tree |-> "out", path |-> dstdir \o <<BaseName(sp)>>,
          data |-> src[sp].data, exist_ok |-> TRUE]
    ELSE [op |-> "raise", tree |-> "out", path |-> sp, data |-> <<>>, exist_ok |-> TRUE]

OpWrite(t, p, d) == [op |-> "copy", tree |-> t, path |-> p, data |-> d, exist_ok |-> TRUE]

OpCopyTree(sp, dp, exist_ok) ==
    [op |-> "copytree", tree |-> "out", path |-> dp, data |-> sp, exist_ok |-> exist_ok]

OpRmTree(t, p) == [op |-> "rmtree", tree |-> t, path |-> p, data |-> <<>>, exist_ok |-> TRUE]

\* an exception raised while reading the source (os.listdir of a regular file)
OpRaise(p) == [op |-> "raise", tree |-> "src", path |-> p, data |-> <<>>, exist_ok |-> TRUE]

TreeOf(st, t) == IF t = "src" THEN st.src ELSE st.out

WithTree(st, t, fs) ==
    IF t = "src" THEN [st EXCEPT !.src = fs] ELSE [st EXCEPT !.out = fs]

Failed(st) == [st EXCEPT !.ok = FALSE]

\* one step on st = [src, out, ok]
ExecOp(rev, st, o) ==
    LET fs == TreeOf(st, o.tree) IN
    CASE o.op = "makedirs" ->
            IF MakeDirsOk(fs, o.path, o.exist_ok)
            THEN WithTree(st, o.tree, MakeDirs(fs, o.path)) ELSE Failed(st)
      [] o.op = "copy" ->
            IF WriteFileOk(fs, o.path)
            THEN WithTree(st, o.tree, WriteFile(fs, o.path, o.data)) ELSE Failed(st)
      [] o.op = "copytree" ->
            LET r == CopyTree(rev, st.src, fs, o.data, o.path, o.exist_ok)
            IN [WithTree(st, o.tree, r.fs) EXCEPT !.ok = ~r.err]
      [] o.op = "rmtree" -> WithTree(st, o.tree, RmTree(fs, o.path))
      [] OTHER -> Failed(st)

\* ExecIn with the steps after a failed one still performed
RECURSIVE ExecInPastFailure(_, _, _)
ExecInPastFailure(rev, st, ops) ==
    IF ops = <<>> THEN st
    ELSE LET n == ExecOp(rev, st, Head(ops))
         IN ExecInPastFailure(rev, [n EXCEPT !.ok = st.ok /\ n.ok], Tail(ops))

\* the steps in order, up to the first one that raises
RECURSIVE ExecIn(_, _, _)
ExecIn(rev, st, ops) ==
    IF ops = <<>> \/ ~st.ok THEN st
    ELSE ExecIn(rev, ExecOp(rev, st, Head(ops)), Tail(ops))

Exec(ops) == ExecIn(enumRev, [src |-> source, out |-> out, ok |-> TRUE], ops)

-----------------------------------------------------------------------------
(* Names the engine derives.                                               *)

\* restructure.py:38: a raw name that is a SUT folder name
IsSutName(d) == StartsWith(Lower(d), "vm") \/ StartsWith(Lower(d), "sut")

\* SutName with the three-character prefix stripped from every name
SutNameStripThree(sut) == "SUT" \o DropPrefix(sut, Len("SUT"))

\* restructure.py:49: the canonical id of a raw SUT folder name
SutName(sut) ==
    IF StartsWith(Lower(sut), "vm")
    THEN "SUT" \o DropPrefix(sut, Len("VM"))
    ELSE "SUT" \o DropPrefix(sut, Len("SUT"))

\* restructure.py:87: the numeric-match-key of a raw SUT folder name
SutNumber(sut) == DigitsOf(sut)

\* f'run{idx}'
RunName(idx) == "run" \o IntToStr(idx)

\* f'instance{instance_num}'
InstanceName(m) == "instance" \o IntToStr(m)

IsIterationName(d) == StartsWith(Lower(d), "iteration")

\* InstanceNum without the split at the next "-"
InstanceNumWholeTail(filename) ==
    IF Contains(filename, "log-run")
    THEN LET run_id == DigitsOf(SplitSecond(filename, "log-run"))
         IN IF run_id = "" THEN 1 ELSE ParseInt(run_id)
    ELSE 1

\* restructure.py:155-165: the instance number of a log file name
InstanceNum(filename) ==
    IF Contains(filename, "log-run")
    THEN LET part == SplitSecond(filename, "log-run")
             run_id == DigitsOf(BeforeFirst(part, "-"))
         IN IF run_id = "" THEN 1 ELSE ParseInt(run_id)
    ELSE 1

Dirs(src, p, names) == SelectSeq(names, LAMBDA n : IsDir(src, p \o <<n>>))

Files(src, p, names) == SelectSeq(names, LAMBDA n : IsFile(src, p \o <<n>>))

-----------------------------------------------------------------------------
(* Case 1: the sections of the per-SUT loop, as the steps they perform.    *)

\* SkeletonOps creating the SUT directory alone
SkeletonOpsSutDirOnly(sut_name) ==
    << OpMakeDirs("out", <<sut_name>>) >>

\* restructure.py:50-59
SkeletonOps(sut_name) ==
    << OpMakeDirs("out", <<sut_name>>),
       OpMakeDirs("out", <<sut_name, "PlatformProfiler">>),
       OpMakeDirs("out", <<sut_name, "WorkloadProfiler">>),
       OpMakeDirs("out", <<sut_name, "Results">>) >>

\* restructure.py:76-83: one ppN subfolder into run{idx}
PlatformRunOps(src, pp_folder, run_dir) ==
    <<OpMakeDirs("out", run_dir)>> \o
    LET names == Files(src, pp_folder, ListDir(src, pp_folder))
    IN [j \in 1..Len(names) |-> OpCopy(src, pp_folder \o <<names[j]>>, run_dir)]

\* PlatformCandidateOps with the loose files copied flat beside the run folders
PlatformCandidateOpsLooseToo(src, src_folder_name, platform_profiler_dir) ==
    LET p == <<src_folder_name>> IN
    IF ~IsDir(src, p) THEN <<>>
    ELSE LET contents == ListDir(src, p)
             files == Files(src, p, contents)
             sorted_subdirs == Sorted(Range(Dirs(src, p, contents)))
         IN [j \in 1..Len(files) |-> OpCopy(src, p \o <<files[j]>>, platform_profiler_dir)] \o
            Flatten([idx \in 1..Len(sorted_subdirs) |->
                    PlatformRunOps(src, p \o <<sorted_subdirs[idx]>>,
                                   platform_profiler_dir \o <<RunName(idx)>>)])

\* restructure.py:63-83: one candidate folder
PlatformCandidateOps(src, src_folder_name, platform_profiler_dir) ==
    LET p == <<src_folder_name>> IN
    IF ~Exists(src, p) THEN <<>>
    ELSE IF IsFile(src, p) THEN <<OpRaise(p)>>
    ELSE LET contents == ListDir(src, p)
             subdirs == Dirs(src, p, contents)
             files == Files(src, p, contents)
             sorted_subdirs == Sorted(Range(subdirs))
         IN IF files # <<>> /\ subdirs = <<>>
            THEN [j \in 1..Len(files) |-> OpCopy(src, p \o <<files[j]>>, platform_profiler_dir)]
            ELSE IF subdirs # <<>>
            THEN Flatten([idx \in 1..Len(sorted_subdirs) |->
                    PlatformRunOps(src, p \o <<sorted_subdirs[idx]>>,
                                   platform_profiler_dir \o <<RunName(idx)>>)])
            ELSE <<>>

\* restructure.py:61-83
PlatformProfilerOps(src, platform_profiler_dir) ==
    PlatformCandidateOps(src, "PlatformProfile", platform_profiler_dir) \o
    PlatformCandidateOps(src, "Host-pp", platform_profiler_dir)

\* WpCandidates with the last entry that passes the test in front
WpCandidatesLastFirst(src, sut) ==
    Reverse(SelectSeq(ListDir(src, <<>>),
                      LAMBDA c : /\ StartsWith(Lower(c), "wp-")
                                 /\ EndsWith(Lower(c), Lower(SutNumber(sut)))))

\* restructure.py:88-92: the root entries that pass the wp- test, in enumeration order
WpCandidates(src, sut) ==
    SelectSeq(ListDir(src, <<>>),
              LAMBDA c : /\ StartsWith(Lower(c), "wp-")
                         /\ EndsWith(Lower(c), Lower(SutNumber(sut))))

\* WpFiles in the order of the listing
WpFilesUnsorted(src, wp_folder) ==
    SelectSeq(ListDir(src, wp_folder), LAMBDA f : EndsWith(Lower(f), ".json"))

\* restructure.py:96
WpFiles(src, wp_folder) ==
    Sorted({f \in ChildNames(src, wp_folder) : EndsWith(Lower(f), ".json")})

\* restructure.py:101-102
WpIterationFolders(src, wp_folder) ==
    SelectSeq(Dirs(src, wp_folder, ListDir(src, wp_folder)), IsIterationName)

\* restructure.py:97-113: one .json file into its run slot
WpRunOps(src, wp_folder, wp_file, run_dir) ==
    LET iteration_folders == WpIterationFolders(src, wp_folder) IN
    IF iteration_folders # <<>>
    THEN Flatten([j \in 1..Len(iteration_folders) |->
            << OpMakeDirs("out", run_dir \o <<iteration_folders[j]>>),
               OpCopy(src, wp_folder \o <<wp_file>>, run_dir \o <<iteration_folders[j]>>) >>])
    ELSE << OpMakeDirs("out", run_dir \o <<"iteration1">>),
            OpCopy(src, wp_folder \o <<wp_file>>, run_dir \o <<"iteration1">>) >>

\* restructure.py:85-113
WorkloadProfilerOps(src, sut, workload_profiler_dir) ==
    LET candidates == WpCandidates(src, sut) IN
    IF candidates = <<>> THEN <<>>
    ELSE LET wp_folder == <<candidates[1]>> IN
         IF IsFile(src, wp_folder) THEN <<OpRaise(wp_folder)>>
         ELSE LET wp_files == WpFiles(src, wp_folder)
              IN Flatten([run_idx \in 1..Len(wp_files) |->
                    WpRunOps(src, wp_folder, wp_files[run_idx],
                             workload_profiler_dir \o <<RunName(run_idx)>>)])

\* restructure.py:153-169, 183-198: a log file into instance{m} of an iteration
ClassifyFileOps(src, source_item, iteration_dir) ==
    LET target_instance_dir ==
            iteration_dir \o <<InstanceName(InstanceNum(BaseName(source_item)))>>
    IN << OpMakeDirs("out", target_instance_dir),
          OpCopy(src, source_item, target_instance_dir) >>

\* InstanceFolderOps with copytree refusing a destination that exists
InstanceFolderOpsNoMerge(var, src, instance_path, target_instance_dir) ==
    <<OpMakeDirs("out", target_instance_dir)>> \o
    LET items == ListDir(src, instance_path)
    IN [j \in 1..Len(items) |->
            IF IsFile(src, instance_path \o <<items[j]>>)
            THEN OpCopy(src, instance_path \o <<items[j]>>, target_instance_dir)
            ELSE OpCopyTree(instance_path \o <<items[j]>>,
                            target_instance_dir \o <<items[j]>>, FALSE)]

\* restructure.py:140-148: an existing instance folder, copied as it is
InstanceFolderOps(var, src, instance_path, target_instance_dir) ==
    <<OpMakeDirs("out", target_instance_dir)>> \o
    LET items == ListDir(src, instance_path)
    IN [j \in 1..Len(items) |->
            IF IsFile(src, instance_path \o <<items[j]>>)
            THEN OpCopy(src, instance_path \o <<items[j]>>, target_instance_dir)
            ELSE OpCopyTree(instance_path \o <<items[j]>>,
                            target_instance_dir \o <<items[j]>>, var # "v2")]

\* restructure.py:151-174: the entries of an iteration without instance folders
IterationItemOps(var, src, source_item, iteration_dir) ==
    IF IsFile(src, source_item)
    THEN ClassifyFileOps(src, source_item, iteration_dir)
    ELSE LET target_dir == iteration_dir \o <<"instance1", BaseName(source_item)>>
         IN << OpMakeDirs("out", IF var = "v2" THEN target_dir ELSE Parent(target_dir)),
               OpCopyTree(source_item, target_dir, TRUE) >>

\* IterationOps classifying the loose files beside instance folders too
IterationOpsKeepingLoose(var, src, iteration_path, iteration_dir) ==
    LET items == ListDir(src, iteration_path)
        instance_folders == Dirs(src, iteration_path, items)
        loose == Files(src, iteration_path, items)
    IN IF instance_folders # <<>>
       THEN Flatten([j \in 1..Len(instance_folders) |->
               InstanceFolderOps(var, src, iteration_path \o <<instance_folders[j]>>,
                                 iteration_dir \o <<instance_folders[j]>>)]) \o
            Flatten([j \in 1..Len(loose) |->
               ClassifyFileOps(src, iteration_path \o <<loose[j]>>, iteration_dir)])
       ELSE Flatten([j \in 1..Len(items) |->
               IterationItemOps(var, src, iteration_path \o <<items[j]>>, iteration_dir)])

\* restructure.py:131-174: one iteration folder of a run
IterationOps(var, src, iteration_path, iteration_dir) ==
    LET items == ListDir(src, iteration_path)
        instance_folders == Dirs(src, iteration_path, items)
    IN IF instance_folders # <<>>
       THEN Flatten([j \in 1..Len(instance_folders) |->
               InstanceFolderOps(var, src, iteration_path \o <<instance_folders[j]>>,
                                 iteration_dir \o <<instance_folders[j]>>)])
       ELSE Flatten([j \in 1..Len(items) |->
               IterationItemOps(var, src, iteration_path \o <<items[j]>>, iteration_dir)])

\* NoIterationBase that never looks for BenchmarkLog
NoIterationBaseRunPath(src, run_path) == run_path

\* restructure.py:177-178: the folder whose entries a run without iterations contributes
NoIterationBase(src, run_path) ==
    IF Exists(src, run_path \o <<"BenchmarkLog">>)
    THEN run_path \o <<"BenchmarkLog">> ELSE run_path

\* restructure.py:176-198
NoIterationOps(src, run_path, run_dir) ==
    LET base == NoIterationBase(src, run_path) IN
    IF IsFile(src, base) THEN <<OpRaise(base)>>
    ELSE LET items == Files(src, base, ListDir(src, base))
         IN Flatten([j \in 1..Len(items) |->
               ClassifyFileOps(src, base \o <<items[j]>>, run_dir \o <<"iteration1">>)])

\* restructure.py:125-128
IterationFolders(src, run_path) ==
    SelectSeq(Dirs(src, run_path, ListDir(src, run_path)), IsIterationName)

\* restructure.py:124-198: one run directory
RunOps(var, src, run_path, run_dir) ==
    LET iteration_folders == IterationFolders(src, run_path) IN
    IF iteration_folders # <<>>
    THEN Flatten([j \in 1..Len(iteration_folders) |->
            IterationOps(var, src, run_path \o <<iteration_folders[j]>>,
                         run_dir \o <<iteration_folders[j]>>)])
    ELSE NoIterationOps(src, run_path, run_dir)

\* RunNumberAt with every entry of the listing consuming an index
RunNumberAtCountingAll(src, vm_dir, entries, i) == i

\* restructure.py:117-122, 200: run_number when the loop reaches entry i of sorted(os.listdir(vm_dir))
RunNumberAt(src, vm_dir, entries, i) ==
    1 + Cardinality({j \in 1..(i - 1) : IsDir(src, vm_dir \o <<entries[j]>>)})

\* restructure.py:115-200
ResultsOps(var, src, vm_dir, results_dir) ==
    LET entries == Sorted(ChildNames(src, vm_dir))
    IN Flatten([i \in 1..Len(entries) |->
          IF ~IsDir(src, vm_dir \o <<entries[i]>>) THEN <<>>
          ELSE RunOps(var, src, vm_dir \o <<entries[i]>>,
                      results_dir \o <<RunName(RunNumberAt(src, vm_dir, entries, i))>>)])

\* RootFilesMultiOps with the files copied to the first SUT only
RootFilesFirstSutOnly(src, sut_list) ==
    LET items == Files(src, <<>>, ListDir(src, <<>>))
    IN [i \in 1..Len(items) |-> OpCopy(src, <<items[i]>>, <<SutName(sut_list[1])>>)]

\* restructure.py:202-211
RootFilesMultiOps(src, sut_list) ==
    LET items == Files(src, <<>>, ListDir(src, <<>>))
    IN Flatten([i \in 1..Len(items) |->
          [k \in 1..Len(sut_list) |-> OpCopy(src, <<items[i]>>, <<SutName(sut_list[k])>>)]])

-----------------------------------------------------------------------------
(* Case 2: the single-system sections of restructure.py.                   *)

NoArtifact == [path |-> <<>>, is_tar |-> FALSE, temp |-> <<>>]

\* restructure.py:236-237
LogSubfolders(src) ==
    IF IsDir(src, <<"Logs">>)
    THEN Sorted({d \in ChildNames(src, <<"Logs">>) : IsDir(src, <<"Logs", d>>)})
    ELSE <<>>

\* restructure.py:232-239
NumRuns(subfolders) == IF subfolders # <<>> THEN Len(subfolders) ELSE 1

\* restructure.py:251: item.lower().endswith((".json", ".tar.gz"))
IsWpArtifactName(item) ==
    EndsWith(Lower(item), ".json") \/ EndsWith(Lower(item), ".tar.gz")

\* restructure.py:257: the throwaway folder, named by a fresh uuid4
ExtractedTempName == "extracted_wp_temp_UUID"

\* restructure.py:249-261: the first artifact in sorted order
FindWpArtifact(src) ==
    LET wp_src == <<"WorkloadProfiler">>
        found == IF IsDir(src, wp_src)
                 THEN SelectSeq(Files(src, wp_src, Sorted(ChildNames(src, wp_src))),
                                IsWpArtifactName)
                 ELSE <<>>
    IN IF found = <<>> THEN NoArtifact
       ELSE [path |-> wp_src \o <<found[1]>>,
             is_tar |-> EndsWith(Lower(found[1]), ".tar.gz"),
             temp |-> IF EndsWith(Lower(found[1]), ".tar.gz")
                      THEN wp_src \o <<ExtractedTempName>> ELSE <<>>]

(* What tarfile finds in an archive of the source: its members (paths      *)
(* relative to the extraction folder), and whether it raises TarError:     *)
(* at once when the file is not a gzip'ed tar, or in the middle of a       *)
(* member when the tar stream inside ends early.  Decided by the file,     *)
(* here by its name.                                                       *)
ArchiveIsCorrupt(name) ==
    StartsWith(Lower(name), "bad") \/ StartsWith(Lower(name), "trunc")

\* the members extractall writes, in archive order, a directory before what
\* it holds; cut: the member at which the stream ends, left incomplete
ArchiveMembers(name) ==
    IF StartsWith(Lower(name), "bad") THEN <<>>
    ELSE IF StartsWith(Lower(name), "trunc")
    THEN << [path |-> <<"wp.json">>, kind |-> "file", cut |-> FALSE],
            [path |-> <<"d">>, kind |-> "dir", cut |-> FALSE],
            [path |-> <<"d", "wp.json">>, kind |-> "file", cut |-> TRUE] >>
    ELSE << [path |-> <<"wp.json">>, kind |-> "file", cut |-> FALSE],
            [path |-> <<"d">>, kind |-> "dir", cut |-> FALSE],
            [path |-> <<"d", "wp.json">>, kind |-> "file", cut |-> FALSE],
            [path |-> <<"d", "trace.csv">>, kind |-> "file", cut |-> FALSE] >>

\* restructure.py:7-16: extract_tar_gz(tar_path, extract_to); a TarError is
\* caught and printed, what was written before it stays
ExtractTarGzOps(tar_path, extract_to) ==
    IF EndsWith(BaseName(tar_path), ".tar.gz")
    THEN <<OpMakeDirs("src", extract_to)>> \o
         LET ms == ArchiveMembers(BaseName(tar_path))
         IN [i \in 1..Len(ms) |->
               IF ms[i].kind = "dir"
               THEN OpMakeDirs("src", extract_to \o ms[i].path)
               ELSE OpWrite("src", extract_to \o ms[i].path,
                            tar_path \o <<"!">> \o ms[i].path \o
                            (IF ms[i].cut THEN <<"cut">> ELSE <<>>))]
    ELSE <<>>

\* restructure.py:253-258
PrepareArtifactOps(artifact) ==
    IF artifact.is_tar THEN ExtractTarGzOps(artifact.path, artifact.temp) ELSE <<>>

\* restructure.py:263-271
SinglePlatformOps(src, platform_profiler_dir) ==
    LET platform_src == <<"PlatformProfile">> IN
    IF ~Exists(src, platform_src) THEN <<>>
    ELSE IF IsFile(src, platform_src) THEN <<OpRaise(platform_src)>>
    ELSE LET items == ListDir(src, platform_src)
         IN [j \in 1..Len(items) |->
               IF IsFile(src, platform_src \o <<items[j]>>)
               THEN OpCopy(src, platform_src \o <<items[j]>>, platform_profiler_dir)
               ELSE OpCopyTree(platform_src \o <<items[j]>>,
                               platform_profiler_dir \o <<items[j]>>, TRUE)]

\* os.walk(top): the directories, top-down, each before its subdirectories
RECURSIVE WalkDirs(_, _, _)
WalkDirs(rev, src, top) ==
    <<top>> \o
    LET subs == SelectSeq(ListDirIn(rev, src, top), LAMBDA n : IsDir(src, top \o <<n>>))
    IN Flatten([j \in 1..Len(subs) |-> WalkDirs(rev, src, top \o <<subs[j]>>)])

\* for root, _, files in os.walk(top): for file in files: the files, in walk order
WalkFiles(rev, src, top) ==
    LET ds == WalkDirs(rev, src, top)
    IN Flatten([j \in 1..Len(ds) |->
          LET names == SelectSeq(ListDirIn(rev, src, ds[j]), LAMBDA n : IsFile(src, ds[j] \o <<n>>))
          IN [k \in 1..Len(names) |-> ds[j] \o <<names[k]>>]])

\* restructure.py:276-289: one run slot
ReplicateRunOps(src, artifact, target_dir) ==
    <<OpMakeDirs("out", target_dir)>> \o
    (IF artifact.is_tar
     THEN IF artifact.temp # <<>> /\ Exists(src, artifact.temp)
          THEN LET fs == WalkFiles(enumRev, src, artifact.temp)
               IN [k \in 1..Len(fs) |-> OpCopy(src, fs[k], target_dir)]
          ELSE <<>>
     ELSE <<OpCopy(src, artifact.path, target_dir)>>)

\* restructure.py:273-289
ReplicateOps(src, artifact, n, workload_profiler_dir) ==
    IF artifact = NoArtifact THEN <<>>
    ELSE Flatten([run_idx \in 1..n |->
            ReplicateRunOps(src, artifact,
                            workload_profiler_dir \o <<RunName(run_idx), "iteration1">>)])

\* restructure.py:314-324: a run subfolder of Logs, its structure kept
LogRunOps(src, sub_path, instance_dir) ==
    <<OpMakeDirs("out", instance_dir)>> \o
    LET ds == WalkDirs(enumRev, src, sub_path)
    IN Flatten([j \in 1..Len(ds) |->
          LET current_target_dir == instance_dir \o DropPrefix(ds[j], Len(sub_path))
              names == Files(src, ds[j], ListDir(src, ds[j]))
          IN <<OpMakeDirs("out", current_target_dir)>> \o
             [k \in 1..Len(names) |-> OpCopy(src, ds[j] \o <<names[k]>>, current_target_dir)]])

\* restructure.py:292-324
LogsOps(src, subfolders, results_dir) ==
    LET logs_src == <<"Logs">> IN
    IF ~Exists(src, logs_src) THEN <<>>
    ELSE IF subfolders = <<>>
    THEN LET instance_dir == results_dir \o <<"run1", "iteration1", "instance1">>
             items == ListDir(src, logs_src)
         IN <<OpMakeDirs("out", instance_dir)>> \o
            [j \in 1..Len(items) |->
               IF IsFile(src, logs_src \o <<items[j]>>)
               THEN OpCopy(src, logs_src \o <<items[j]>>, instance_dir)
               ELSE OpCopyTree(logs_src \o <<items[j]>>, instance_dir \o <<items[j]>>, TRUE)]
    ELSE Flatten([run_idx \in 1..Len(subfolders) |->
            LogRunOps(src, logs_src \o <<subfolders[run_idx]>>,
                      results_dir \o <<RunName(run_idx), "iteration1", "instance1">>)])

ManualResultName == "epyc_manual_result.json"

\* restructure.py:327-343: one root-level entry
SingleRootItemOps(src, item, sut_dir, results_dir) ==
    IF ~IsFile(src, <<item>>) THEN <<>>
    ELSE IF Lower(item) = ManualResultName THEN <<OpCopy(src, <<item>>, sut_dir)>>
    ELSE IF EndsWith(Lower(item), ".json") \/ EndsWith(Lower(item), ".txt")
    THEN LET instance_dir == results_dir \o <<"run1", "iteration1", "instance1">>
         IN <<OpMakeDirs("out", instance_dir), OpCopy(src, <<item>>, instance_dir)>>
    ELSE <<>>

\* restructure.py:326-343
SingleRootOps(src, sut_dir, results_dir) ==
    LET items == ListDir(src, <<>>)
    IN Flatten([i \in 1..Len(items) |-> SingleRootItemOps(src, items[i], sut_dir, results_dir)])

\* CleanupOps removing the folder that holds the throwaway folder
CleanupOpsParentFolder(src, artifact) ==
    IF artifact.temp # <<>> /\ Exists(src, artifact.temp)
    THEN <<OpRmTree("src", Parent(artifact.temp))>> ELSE <<>>

\* restructure.py:345-347
CleanupOps(src, artifact) ==
    IF artifact.temp # <<>> /\ Exists(src, artifact.temp)
    THEN <<OpRmTree("src", artifact.temp)>> ELSE <<>>

-----------------------------------------------------------------------------
(* Case 2 in restructurev3.py: the single-system sections that differ.     *)

\* restructurev3.py:252: the throwaway folder of the item at run_idx
V3ExtractedTempName(run_idx) == "extracted_wp_temp_" \o IntToStr(run_idx)

\* V3WpItems without the archives whose extraction fails
V3WpItemsExtractable(src, wp_src) ==
    SelectSeq(Sorted(ChildNames(src, wp_src)),
              LAMBDA item : /\ EndsWith(item, ".tar.gz") \/ IsFile(src, wp_src \o <<item>>)
                            /\ ~(EndsWith(item, ".tar.gz") /\ ArchiveIsCorrupt(item)))

\* restructurev3.py:246, 269: the entries that take a run slot
V3WpItems(src, wp_src) ==
    SelectSeq(Sorted(ChildNames(src, wp_src)),
              LAMBDA item : EndsWith(item, ".tar.gz") \/ IsFile(src, wp_src \o <<item>>))

(* restructurev3.py:248-267: an entry named *.tar.gz.  The files copied    *)
(* are the ones the walk finds in the throwaway folder after extraction,   *)
(* that is the members extract_tar_gz wrote there.                         *)
V3ArchiveOps(src, tar_path, extract_temp, target_dir) ==
    IF IsDir(src, tar_path)
    THEN <<OpMakeDirs("src", extract_temp), OpRaise(tar_path)>>
    ELSE LET extracted == ExecIn(enumRev, [src |-> src, out |-> EmptyTree, ok |-> TRUE],
                                 ExtractTarGzOps(tar_path, extract_temp)).src
             fs == WalkFiles(enumRev, extracted, extract_temp)
         IN ExtractTarGzOps(tar_path, extract_temp) \o
            <<OpMakeDirs("out", target_dir)>> \o
            [k \in 1..Len(fs) |->
                OpWrite("out", target_dir \o <<BaseName(fs[k])>>, extracted[fs[k]].data)] \o
            <<OpRmTree("src", extract_temp)>>

\* restructurev3.py:240-275
V3WorkloadProfilerOps(src, workload_profiler_dir) ==
    LET wp_src == <<"WorkloadProfiler">> IN
    IF ~Exists(src, wp_src) THEN <<>>
    ELSE IF IsFile(src, wp_src) THEN <<OpRaise(wp_src)>>
    ELSE LET items == V3WpItems(src, wp_src)
         IN Flatten([run_idx \in 1..Len(items) |->
               LET source_item == wp_src \o <<items[run_idx]>>
                   target_dir == workload_profiler_dir \o <<RunName(run_idx), "iteration1">>
               IN IF EndsWith(items[run_idx], ".tar.gz")
                  THEN V3ArchiveOps(src, source_item,
                                    wp_src \o <<V3ExtractedTempName(run_idx)>>, target_dir)
                  ELSE <<OpMakeDirs("out", target_dir), OpCopy(src, source_item, target_dir)>>])

\* restructurev3.py:295-302: a run subfolder of Logs, all its files side by side
V3LogRunOps(src, sub_path, instance_dir) ==
    <<OpMakeDirs("out", instance_dir)>> \o
    LET fs == WalkFiles(enumRev, src, sub_path)
    IN [k \in 1..Len(fs) |-> OpCopy(src, fs[k], instance_dir)]

\* restructurev3.py:280-302
V3LogsOps(src, results_dir) ==
    LET logs_src == <<"Logs">> IN
    IF ~Exists(src, logs_src) THEN <<>>
    ELSE IF IsFile(src, logs_src) THEN <<OpRaise(logs_src)>>
    ELSE LET subfolders == LogSubfolders(src) IN
         IF subfolders = <<>>
         THEN LET instance_dir == results_dir \o <<"run1", "iteration1", "instance1">>
                  files == Files(src, logs_src, ListDir(src, logs_src))
              IN <<OpMakeDirs("out", instance_dir)>> \o
                 [j \in 1..Len(files) |-> OpCopy(src, logs_src \o <<files[j]>>, instance_dir)]
         ELSE Flatten([run_idx \in 1..Len(subfolders) |->
                 V3LogRunOps(src, logs_src \o <<subfolders[run_idx]>>,
                             results_dir \o <<RunName(run_idx), "iteration1", "instance1">>)])

\* restructurev3.py:305-311
V3RootOps(src, results_dir) ==
    LET items == SelectSeq(Files(src, <<>>, ListDir(src, <<>>)),
                           LAMBDA item : EndsWith(Lower(item), ".json") \/ EndsWith(Lower(item), ".txt"))
        instance_dir == results_dir \o <<"run1", "iteration1", "instance1">>
    IN Flatten([i \in 1..Len(items) |->
          <<OpMakeDirs("out", instance_dir), OpCopy(src, <<items[i]>>, instance_dir)>>])

-----------------------------------------------------------------------------
(* The source trees of the model: unions of at most MaxParts parts.        *)

MaxParts == 3

F(p) == <<p, "file">>

D(p) == <<p, "dir">>

\* parts of a multi-system source
MultiParts ==
    << { F(<<"VM1", "r1", "log-run2-x.txt">>), F(<<"VM1", "r1", "notes.txt">>),
         F(<<"VM1", "info.txt">>), D(<<"VM1", "r0">>) },
       { F(<<"VM1", "r2", "iteration1", "log-run3-a.log">>),
         F(<<"VM1", "r2", "Iteration2", "plain.txt">>),
         F(<<"VM1", "r2", "Iteration2", "log-run8.txt">>),
         F(<<"VM1", "r3", "iteration1", "instA", "out.log">>),
         F(<<"VM1", "r3", "iteration1", "instA", "sub", "deep.log">>),
         F(<<"VM1", "r3", "iteration1", "instA", "sub", "vm.log">>),
         F(<<"VM1", "r3", "iteration1", "loose.txt">>) },
       { F(<<"SUT1", "r2", "iteration1", "log-run3-a.log">>),
         F(<<"SUT1", "r3", "iteration1", "instA", "out.log">>),
         F(<<"SUT1", "r3", "iteration1", "instA", "sub", "deep.log">>) },
       { F(<<"vm2", "ra", "log-run10-z.txt">>), F(<<"vm2", "ra", "log-run-5.txt">>),
         F(<<"vm2", "ra", "log-runx7-b.log">>), F(<<"vm2", "ra", "log-run1a2-z.txt">>),
         F(<<"vm2", "rb", "BenchmarkLog", "log-run4-c.log">>),
         F(<<"vm2", "rb", "BenchmarkLog", "nested", "keep.txt">>),
         F(<<"vm2", "rb", "top.txt">>) },
       { F(<<"SUT_primary3", "rz", "a.txt">>), D(<<"sutB">>),
         F(<<"SUT_primary3", "s1", "iteration1", "log-run2-m.log">>),
         F(<<"SUT_primary3", "s1", "iteration1", "traces", "t.bin">>) },
       { F(<<"wp-vm1", "run_b.json">>), F(<<"wp-vm1", "run_a.json">>),
         F(<<"wp-vm1", "readme.md">>) },
       { F(<<"wp-vm11", "other.json">>), D(<<"wp-vm11", "iteration1">>),
         D(<<"wp-vm11", "Iteration2">>) } >>

\* parts of either kind of source
SharedParts ==
    << { F(<<"PlatformProfile", "a.txt">>), F(<<"PlatformProfile", "b.txt">>) },
       { F(<<"PlatformProfile", "pp2", "p2.csv">>), F(<<"PlatformProfile", "pp1", "p1.csv">>),
         F(<<"PlatformProfile", "pp1", "deep", "x.csv">>), F(<<"PlatformProfile", "loose.txt">>) },
       { F(<<"Host-pp", "a.txt">>), F(<<"Host-pp", "h.txt">>) },
       { F(<<"summary.txt">>), F(<<"vmnotes.json">>), F(<<"data.csv">>),
         F(<<"xvm", "q.txt">>) },
       { F(<<"Logs", "loose.log">>) },
       { F(<<"Results">>) } >>

\* parts of a single-system source
SingleParts ==
    << { F(<<"Logs", "a", "l1.log">>), F(<<"Logs", "b", "l2.log">>),
         F(<<"Logs", "b", "log-run2-x.txt">>),
         F(<<"Logs", "c", "sub", "l3.log">>) },
       { F(<<"WorkloadProfiler", "capture.json">>) },
       { F(<<"WorkloadProfiler", "arch.tar.gz">>) },
       { F(<<"WorkloadProfiler", "bad.tar.gz">>), D(<<"WorkloadProfiler", "aux">>) },
       { F(<<"WorkloadProfiler", "A.TAR.GZ">>) },
       { F(<<"EPYC_Manual_Result.json">>) },
       { F(<<"WorkloadProfiler", "trunc.tar.gz">>) },
       { D(<<"Logs", "a", "summary.txt">>) } >>

\* the tree with these leaves: every ancestor a directory, every file's data its own path
TreeOfLeaves(leaves) ==
    LET paths == {<<>>} \cup UNION {Prefixes(l[1]) : l \in leaves}
    IN [p \in paths |->
          IF <<p, "file">> \in leaves THEN FileEntry(p) ELSE DirEntry]

TreesFrom(parts) ==
    { TreeOfLeaves(UNION {parts[i] : i \in S}) :
        S \in {S \in SUBSET (1..Len(parts)) : Cardinality(S) <= MaxParts} }

SourceTrees == TreesFrom(MultiParts \o SharedParts) \cup TreesFrom(SharedParts \o SingleParts)

-----------------------------------------------------------------------------
(* The invocation.                                                         *)

Init ==
    /\ variant = "restructure"
    /\ enumRev \in BOOLEAN
    /\ source0 \in SourceTrees
    /\ source = source0
    /\ out = EmptyTree
    /\ pc = "start"
    /\ suts = <<>>
    /\ sutIdx = 1
    /\ log_subfolders = <<>>
    /\ num_runs = 1
    /\ wp_artifact = NoArtifact
    /\ invocation = 1
    /\ first_out = EmptyTree

\* perform the steps of a section and move on, or abort at the one that raises
Step(ops, next) ==
    LET r == Exec(ops)
    IN /\ source' = r.src
       /\ out' = r.out
       /\ pc' = IF r.ok THEN next ELSE "aborted"

\* restructure.py:28-30
AllocateRoot ==
    /\ pc = "start"
    /\ Step(<<OpMakeDirs("out", <<>>)>>, "identify")
    /\ UNCHANGED <<invocation, first_out, variant, enumRev, source0, suts, sutIdx, log_subfolders, num_runs, wp_artifact>>

\* FindSuts without the os.path.isdir test of line 36
FindSutsAnyEntry(src) ==
    SelectSeq(ListDir(src, <<>>), IsSutName)

\* restructure.py:33-39
FindSuts(src) ==
    SelectSeq(Dirs(src, <<>>, ListDir(src, <<>>)), IsSutName)

\* restructure.py:32-44 and 216: the SUT folders, and the pipeline they select
IdentifySuts ==
    /\ pc = "identify"
    /\ suts' = FindSuts(source)
    /\ sutIdx' = 1
    /\ pc' = IF suts' # <<>> THEN "skeleton"
             ELSE IF variant = "v2" THEN "root_files"
             ELSE IF variant = "v3" THEN "v3_skeleton" ELSE "single_skeleton"
    /\ UNCHANGED <<invocation, first_out, variant, enumRev, source0, source, out, log_subfolders, num_runs, wp_artifact>>

sut == suts[sutIdx]

sut_dir == <<SutName(sut)>>

\* restructure.py:47-59
CreateSkeleton ==
    /\ pc = "skeleton"
    /\ Step(SkeletonOps(SutName(sut)), "platform")
    /\ UNCHANGED <<invocation, first_out, variant, enumRev, source0, suts, sutIdx, log_subfolders, num_runs, wp_artifact>>

\* restructure.py:61-83
CopyPlatformProfiler ==
    /\ pc = "platform"
    /\ Step(PlatformProfilerOps(source, sut_dir \o <<"PlatformProfiler">>), "workload")
    /\ UNCHANGED <<invocation, first_out, variant, enumRev, source0, suts, sutIdx, log_subfolders, num_runs, wp_artifact>>

\* restructure.py:85-113
CopyWorkloadProfiler ==
    /\ pc = "workload"
    /\ Step(WorkloadProfilerOps(source, sut, sut_dir \o <<"WorkloadProfiler">>), "results")
    /\ UNCHANGED <<invocation, first_out, variant, enumRev, source0, suts, sutIdx, log_subfolders, num_runs, wp_artifact>>

\* restructure.py:115-200, and the loop header at 47
CopyResults ==
    /\ pc = "results"
    /\ LET r == Exec(ResultsOps(variant, source, <<sut>>, sut_dir \o <<"Results">>))
       IN /\ source' = r.src
          /\ out' = r.out
          /\ pc' = IF ~r.ok THEN "aborted"
                   ELSE IF sutIdx < Len(suts) THEN "skeleton" ELSE "root_files"
          /\ sutIdx' = IF r.ok /\ sutIdx < Len(suts) THEN sutIdx + 1 ELSE sutIdx
    /\ UNCHANGED <<invocation, first_out, variant, enumRev, source0, suts, log_subfolders, num_runs, wp_artifact>>

\* restructure.py:202-211
CopyRootFiles ==
    /\ pc = "root_files"
    /\ Step(RootFilesMultiOps(source, suts), "done")
    /\ UNCHANGED <<invocation, first_out, variant, enumRev, source0, suts, sutIdx, log_subfolders, num_runs, wp_artifact>>

\* restructure.py:219-227
SingleSkeleton ==
    /\ pc = "single_skeleton"
    /\ Step(SkeletonOps("SUT1"), "runs")
    /\ UNCHANGED <<invocation, first_out, variant, enumRev, source0, suts, sutIdx, log_subfolders, num_runs, wp_artifact>>

\* restructure.py:229-239
DetermineRuns ==
    /\ pc = "runs"
    /\ log_subfolders' = LogSubfolders(source)
    /\ num_runs' = NumRuns(log_subfolders')
    /\ pc' = IF IsFile(source, <<"Logs">>) THEN "aborted" ELSE "artifact"
    /\ UNCHANGED <<invocation, first_out, variant, enumRev, source0, source, out, suts, sutIdx, wp_artifact>>

\* restructure.py:241-261
PrepareArtifact ==
    /\ pc = "artifact"
    /\ wp_artifact' = FindWpArtifact(source)
    /\ Step(IF IsFile(source, <<"WorkloadProfiler">>)
            THEN <<OpRaise(<<"WorkloadProfiler">>)>>
            ELSE PrepareArtifactOps(wp_artifact'), "single_platform")
    /\ UNCHANGED <<invocation, first_out, variant, enumRev, source0, suts, sutIdx, log_subfolders, num_runs>>

\* restructure.py:263-271
HandlePlatformProfile ==
    /\ pc = "single_platform"
    /\ Step(SinglePlatformOps(source, <<"SUT1", "PlatformProfiler">>), "replicate")
    /\ UNCHANGED <<invocation, first_out, variant, enumRev, source0, suts, sutIdx, log_subfolders, num_runs, wp_artifact>>

\* restructure.py:273-289
ReplicateArtifact ==
    /\ pc = "replicate"
    /\ Step(ReplicateOps(source, wp_artifact, num_runs, <<"SUT1", "WorkloadProfiler">>), "logs")
    /\ UNCHANGED <<invocation, first_out, variant, enumRev, source0, suts, sutIdx, log_subfolders, num_runs, wp_artifact>>

\* restructure.py:291-324
HandleLogs ==
    /\ pc = "logs"
    /\ Step(LogsOps(source, log_subfolders, <<"SUT1", "Results">>), "single_root")
    /\ UNCHANGED <<invocation, first_out, variant, enumRev, source0, suts, sutIdx, log_subfolders, num_runs, wp_artifact>>

\* restructure.py:326-343
HandleRootFiles ==
    /\ pc = "single_root"
    /\ Step(SingleRootOps(source, <<"SUT1">>, <<"SUT1", "Results">>), "cleanup")
    /\ UNCHANGED <<invocation, first_out, variant, enumRev, source0, suts, sutIdx, log_subfolders, num_runs, wp_artifact>>

\* restructure.py:345-353
Cleanup ==
    /\ pc = "cleanup"
    /\ Step(CleanupOps(source, wp_artifact), "done")
    /\ UNCHANGED <<invocation, first_out, variant, enumRev, source0, suts, sutIdx, log_subfolders, num_runs, wp_artifact>>

\* restructure.py:356-362: the script is run again on the source directory
\* as the first run left it; the new run allocates a fresh output root
Reinvoke ==
    /\ pc = "done"
    /\ invocation = 1
    /\ invocation' = 2
    /\ first_out' = out
    /\ out' = EmptyTree
    /\ pc' = "start"
    /\ suts' = <<>>
    /\ sutIdx' = 1
    /\ log_subfolders' = <<>>
    /\ num_runs' = 1
    /\ wp_artifact' = NoArtifact
    /\ UNCHANGED <<variant, enumRev, source0, source>>

Next ==
    \/ AllocateRoot
    \/ IdentifySuts
    \/ CreateSkeleton
    \/ CopyPlatformProfiler
    \/ CopyWorkloadProfiler
    \/ CopyResults
    \/ CopyRootFiles
    \/ SingleSkeleton
    \/ DetermineRuns
    \/ PrepareArtifact
    \/ HandlePlatformProfile
    \/ ReplicateArtifact
    \/ HandleLogs
    \/ HandleRootFiles
    \/ Cleanup
    \/ Reinvoke

Spec == Init /\ [][Next]_vars

-----------------------------------------------------------------------------
(* The invocation of restructurev3.py: Case 1 is the same code, Case 2     *)
(* has its own order and its own WorkloadProfiler, Logs and root steps.    *)

InitV3 ==
    /\ variant = "v3"
    /\ enumRev \in BOOLEAN
    /\ source0 \in SourceTrees
    /\ source = source0
    /\ out = EmptyTree
    /\ pc = "start"
    /\ suts = <<>>
    /\ sutIdx = 1
    /\ log_subfolders = <<>>
    /\ num_runs = 1
    /\ wp_artifact = NoArtifact
    /\ invocation = 1
    /\ first_out = EmptyTree

\* restructurev3.py:218-226
V3Skeleton ==
    /\ pc = "v3_skeleton"
    /\ Step(SkeletonOps("SUT1"), "v3_platform")
    /\ UNCHANGED <<invocation, first_out, variant, enumRev, source0, suts, sutIdx, log_subfolders, num_runs, wp_artifact>>

\* restructurev3.py:228-236
V3PlatformProfile ==
    /\ pc = "v3_platform"
    /\ Step(SinglePlatformOps(source, <<"SUT1", "PlatformProfiler">>), "v3_workload")
    /\ UNCHANGED <<invocation, first_out, variant, enumRev, source0, suts, sutIdx, log_subfolders, num_runs, wp_artifact>>

\* restructurev3.py:238-277
V3WorkloadProfiler ==
    /\ pc = "v3_workload"
    /\ Step(V3WorkloadProfilerOps(source, <<"SUT1", "WorkloadProfiler">>), "v3_logs")
    /\ UNCHANGED <<invocation, first_out, variant, enumRev, source0, suts, sutIdx, log_subfolders, num_runs, wp_artifact>>

\* restructurev3.py:279-302
V3Logs ==
    /\ pc = "v3_logs"
    /\ Step(V3LogsOps(source, <<"SUT1", "Results">>), "v3_root")
    /\ UNCHANGED <<invocation, first_out, variant, enumRev, source0, suts, sutIdx, log_subfolders, num_runs, wp_artifact>>

\* restructurev3.py:305-316
V3RootFiles ==
    /\ pc = "v3_root"
    /\ Step(V3RootOps(source, <<"SUT1", "Results">>), "done")
    /\ UNCHANGED <<invocation, first_out, variant, enumRev, source0, suts, sutIdx, log_subfolders, num_runs, wp_artifact>>

NextV3 ==
    \/ AllocateRoot
    \/ IdentifySuts
    \/ CreateSkeleton
    \/ CopyPlatformProfiler
    \/ CopyWorkloadProfiler
    \/ CopyResults
    \/ CopyRootFiles
    \/ V3Skeleton
    \/ V3PlatformProfile
    \/ V3WorkloadProfiler
    \/ V3Logs
    \/ V3RootFiles

SpecV3 == InitV3 /\ [][NextV3]_vars

-----------------------------------------------------------------------------
(* The invocation of v2restructure.py: the per-SUT loop and the root-file  *)
(* loop only; without SUT folders both loops are empty.                    *)

InitV2 ==
    /\ variant = "v2"
    /\ enumRev \in BOOLEAN
    /\ source0 \in SourceTrees
    /\ source = source0
    /\ out = EmptyTree
    /\ pc = "start"
    /\ suts = <<>>
    /\ sutIdx = 1
    /\ log_subfolders = <<>>
    /\ num_runs = 1
    /\ wp_artifact = NoArtifact
    /\ invocation = 1
    /\ first_out = EmptyTree

NextV2 ==
    \/ AllocateRoot
    \/ IdentifySuts
    \/ CreateSkeleton
    \/ CopyPlatformProfiler
    \/ CopyWorkloadProfiler
    \/ CopyResults
    \/ CopyRootFiles

SpecV2 == InitV2 /\ [][NextV2]_vars

-----------------------------------------------------------------------------
(* Properties.                                                             *)

MultiPcs == {"skeleton", "platform", "workload", "results", "root_files"}

SinglePcs == {"single_skeleton", "runs", "artifact", "single_platform",
              "replicate", "logs", "single_root", "cleanup"}

RootNames == ChildNames(source0, <<>>)

Prefix(s, n) == SubSeq(s, 1, IF Len(s) < n THEN Len(s) ELSE n)

\* the i-th SUT of the list has had its skeleton created
SutStarted(i) ==
    /\ pc # "aborted"
    /\ \/ i < sutIdx
       \/ i = sutIdx /\ pc \in {"platform", "workload", "results", "root_files", "done"}

\* C1: in every state during and after the invocation the tree under
\* source_dir is what it was before the invocation.
C1_SourceUntouched == source = source0

\* a name that begins, in any letter case, with "vm" or "sut"
C2_SutPrefixed(name) == Lower(Prefix(name, 2)) = "vm" \/ Lower(Prefix(name, 3)) = "sut"

C2_HasSutFolder ==
    \E d \in RootNames : IsDir(source0, <<d>>) /\ C2_SutPrefixed(d)

\* C2: the multi-system pipeline runs iff some immediate subdirectory of
\* source_dir has a name starting (case-insensitively) with "vm" or "sut",
\* the single-system pipeline runs otherwise, and never both.
C2_Topology ==
    /\ pc \in MultiPcs => C2_HasSutFolder
    /\ pc \in SinglePcs => ~C2_HasSutFolder
    /\ pc \notin {"start", "identify"} =>
          /\ suts # <<>> <=> C2_HasSutFolder
          /\ pc \in MultiPcs \cup SinglePcs \cup {"done", "aborted"}
    /\ pc = "done" =>
          IF C2_HasSutFolder
          THEN \A i \in 1..Len(suts) : IsDir(out, <<SutName(suts[i]), "Results">>)
          ELSE IsDir(out, <<"SUT1", "Results">>)

\* a finished single-system run over a source with a regular file named
\* vm... and a directory with "vm" after its first character
C2_Witness ==
    /\ pc = "done" /\ suts = <<>>
    /\ IsFile(source0, <<"vmnotes.json">>) /\ IsDir(source0, <<"xvm">>)
    /\ IsDir(out, <<"SUT1">>)

\* "SUT" and the raw name without its "vm" or "sut" prefix
C3_Id(raw) ==
    "SUT" \o (IF Lower(Prefix(raw, 2)) = "vm"
              THEN SubSeq(raw, 3, Len(raw)) ELSE SubSeq(raw, 4, Len(raw)))

\* key is the digit characters of raw, in order
C3_IsKeyOf(key, raw) ==
    LET pos == {i \in 1..Len(raw) : CharAt(raw, i) \in DigitSet}
        nth(j) == CHOOSE i \in pos : Cardinality({k \in pos : k < i}) = j - 1
    IN /\ Len(key) = Cardinality(pos)
       /\ \A j \in 1..Len(key) : CharAt(key, j) = CharAt(raw, nth(j))

\* C3: the canonical id of a raw SUT folder name is "SUT" followed by the
\* name without its 2-character "vm" or 3-character "sut" prefix, and the
\* numeric-match-key is the digits of the raw name in order; every SUT
\* folder is written under its canonical id and nothing else is.
C3_Normalization ==
    /\ \A i \in 1..Len(suts) :
          /\ SutName(suts[i]) = C3_Id(suts[i])
          /\ C3_IsKeyOf(SutNumber(suts[i]), suts[i])
          /\ SutStarted(i) => IsDir(out, <<C3_Id(suts[i])>>)
    /\ suts # <<>> => ChildNames(out, <<>>) \subseteq {C3_Id(suts[i]) : i \in 1..Len(suts)}
    /\ SutName("SUT_primary3") = "SUT_primary3" /\ SutNumber("SUT_primary3") = "3"

\* a finished run over SUT_primary3 and sutB
C3_Witness ==
    /\ pc = "done"
    /\ Range(suts) = {"SUT_primary3", "sutB"}
    /\ IsDir(out, <<"SUT_primary3", "Results">>) /\ IsDir(out, <<"SUTB", "Results">>)

\* the n of a name "run<n>", 0 for any other name
C_RunIndex(name) ==
    IF Len(name) > 3 /\ SubSeq(name, 1, 3) = "run"
          /\ \A i \in 4..Len(name) : CharAt(name, i) \in DigitSet
          /\ CharAt(name, 4) # "0"
    THEN ParseInt(SubSeq(name, 4, Len(name))) ELSE 0

\* the position of subdirectory d among the subdirectories of parent, by name
C_Rank(fs, parent, d) ==
    1 + Cardinality({e \in ChildNames(fs, parent) :
                        IsDir(fs, parent \o <<e>>) /\ StrLess(e, d)})

C_SubDirs(fs, p) == {d \in ChildNames(fs, p) : IsDir(fs, p \o <<d>>)}

C_TopFiles(fs, p) == {f \in ChildNames(fs, p) : IsFile(fs, p \o <<f>>)}

C_IterationDirs(fs, p) ==
    {d \in C_SubDirs(fs, p) : Lower(Prefix(d, 9)) = "iteration"}

\* the SUTs whose Results section has completed
SutsDone ==
    IF pc = "aborted" THEN {}
    ELSE {suts[i] : i \in {i \in 1..Len(suts) : i < sutIdx \/ pc \in {"root_files", "done"}}}

\* the SUT whose Results section completed in the last step
SutJustDone ==
    IF pc = "skeleton" /\ sutIdx > 1 THEN {suts[sutIdx - 1]}
    ELSE IF pc = "root_files" /\ suts # <<>> THEN {suts[sutIdx]}
    ELSE {}

\* the output paths below prefix whose bytes come from source file src_file
C_CopiesOf(prefix, src_file) ==
    {p \in DOMAIN out : IsPrefix(prefix, p) /\ IsFile(out, p) /\ out[p].data = src_file}

\* every file below Results/run{n} that was taken from inside a subdirectory
\* comes from the n-th subdirectory of its SUT folder (or of Logs)
C4_Provenance ==
    \A p \in DOMAIN out :
       (IsFile(out, p) /\ Len(p) >= 4 /\ p[2] = "Results" /\ Len(out[p].data) >= 3) =>
          LET from == out[p].data
          IN /\ IsDir(source0, <<from[1], from[2]>>)
             /\ C_RunIndex(p[3]) = C_Rank(source0, <<from[1]>>, from[2])
             /\ p[1] = IF suts = <<>> THEN "SUT1" ELSE C3_Id(from[1])
             /\ from[1] \in IF suts = <<>> THEN {"Logs"} ELSE Range(suts)

\* the files named fs are present somewhere below directory dir of the output
C4_Present(dir, fs) ==
    \A f \in fs : \E p \in DOMAIN out : IsPrefix(dir, p) /\ IsFile(out, p) /\ BaseName(p) = f

\* the run directories of a processed SUT, with or without iteration
\* folders, have their files below the run{k} of their rank
C4_Coverage ==
    \A s \in SutsDone : \A d \in C_SubDirs(source0, <<s>>) :
       LET run == <<C3_Id(s), "Results", "run" \o IntToStr(C_Rank(source0, <<s>>, d))>> IN
       IF C_IterationDirs(source0, <<s, d>>) = {}
       THEN (C_SubDirs(source0, <<s, d>>) = {}) =>
               C4_Present(run, C_TopFiles(source0, <<s, d>>))
       ELSE \A it \in C_IterationDirs(source0, <<s, d>>) :
               IF C_SubDirs(source0, <<s, d, it>>) = {}
               THEN C4_Present(run \o <<it>>, C_TopFiles(source0, <<s, d, it>>))
               ELSE \A inst \in C_SubDirs(source0, <<s, d, it>>) :
                       C4_Present(run \o <<it, inst>>, C_TopFiles(source0, <<s, d, it, inst>>))

\* the k-th subfolder of Logs is in run{k}/iteration1/instance1 as it is
C4_Logs ==
    (suts = <<>> /\ pc \in {"single_root", "cleanup", "done"}) =>
       \A d \in C_SubDirs(source0, <<"Logs">>) :
          \A q \in DOMAIN source0 :
             (IsPrefix(<<"Logs", d>>, q) /\ IsFile(source0, q)) =>
                C_CopiesOf(<<"SUT1", "Results">>, q) =
                   { <<"SUT1", "Results",
                       "run" \o IntToStr(C_Rank(source0, <<"Logs">>, d)),
                       "iteration1", "instance1">> \o SubSeq(q, 3, Len(q)) }

\* C4: the k-th subdirectory, in sorted name order, of a SUT folder (multi-
\* system) or of Logs (single-system) is mapped to Results/run{k}: entries
\* that are not directories consume no index, and the index advances by one
\* per run directory whether it has iteration folders or not.
C4_RunNumbering == C4_Provenance /\ C4_Coverage /\ C4_Logs

\* VM1, whose file info.txt sorts before its run directories r0 and r1, has
\* been processed, and r1 went to run2
C4_Witness ==
    /\ "VM1" \in SutsDone
    /\ IsFile(source0, <<"VM1", "info.txt">>)
    /\ C_CopiesOf(<<"SUT1", "Results", "run2">>, <<"VM1", "r1", "notes.txt">>) # {}

\* the Logs folders a, b, c of a single system went to run1, run2, run3
C4_WitnessLogs ==
    /\ pc = "done" /\ suts = <<>>
    /\ C_CopiesOf(<<"SUT1", "Results", "run3">>, <<"Logs", "c", "sub", "l3.log">>) # {}

\* the indices n of the run{n} directories directly in directory p of the output
C5_RunIndices(p) ==
    {C_RunIndex(c) : c \in {c \in C_SubDirs(out, p) : C_RunIndex(c) > 0}}

\* C5: after an invocation that completes, the run{n} directories of every
\* category of every SUT are exactly run1..runN for some N >= 0.
C5_DenseRuns ==
    pc = "done" =>
       \A id \in C_SubDirs(out, <<>>) :
          \A cat \in {"PlatformProfiler", "WorkloadProfiler", "Results"} :
             LET R == C5_RunIndices(<<id, cat>>) IN R = 1..Cardinality(R)

\* the position just after the first "log-run" of name, 0 when there is none
C6_AfterLogRun(name) ==
    LET hits == {i \in 1..(Len(name) - 6) : SubSeq(name, i, i + 6) = "log-run"}
    IN IF hits = {} THEN 0 ELSE 7 + CHOOSE i \in hits : \A j \in hits : i <= j

\* the first position from start on that holds a character of stops, or the
\* position after the end of name
C6_StopAt(name, start, stops) ==
    LET at == {j \in start..Len(name) : CharAt(name, j) \in stops}
    IN IF at = {} THEN Len(name) + 1 ELSE CHOOSE j \in at : \A k \in at : j <= k

\* the decimal number written by the digits among positions from..(to - 1)
\* of name, 1 when there is no digit there
C6_Number(name, from, to) ==
    LET val[j \in (from - 1)..(to - 1)] ==
            IF j = from - 1 THEN 0
            ELSE IF CharAt(name, j) \in DigitSet
                 THEN 10 * val[j - 1] + (CHOOSE v \in 0..9 : CharAt("0123456789", v + 1) = CharAt(name, j))
                 ELSE val[j - 1]
    IN IF \E j \in from..(to - 1) : CharAt(name, j) \in DigitSet THEN val[to - 1] ELSE 1

\* the digits that immediately follow the first "log-run"
C6_InstanceImmediate(name) ==
    LET a == C6_AfterLogRun(name) IN
    IF a = 0 THEN 1
    ELSE C6_Number(name, a, C6_StopAt(name, a, CharSet \ DigitSet))

\* all the digits between the first "log-run" and the next "-"
C6_InstanceUpToDash(name) ==
    LET a == C6_AfterLogRun(name) IN
    IF a = 0 THEN 1 ELSE C6_Number(name, a, C6_StopAt(name, a, {"-"}))

\* every file directly in folder base of run directory d of SUT s has exactly
\* one copy below Results, at run{rank of d}/<iteration>/instance{M(name)}/name
C6_Classified(s, d, base, iteration, M(_)) ==
    \A f \in C_TopFiles(source0, base) :
       C_CopiesOf(<<C3_Id(s), "Results">>, base \o <<f>>) =
          { <<C3_Id(s), "Results", "run" \o IntToStr(C_Rank(source0, <<s>>, d)),
              iteration, "instance" \o IntToStr(M(f)), f>> }

\* the iteration directories without subfolders of a run directory
C6_Iterations(s, d, M(_)) ==
    \A it \in C_IterationDirs(source0, <<s, d>>) :
       C_SubDirs(source0, <<s, d, it>>) = {} =>
          C6_Classified(s, d, <<s, d, it>>, it, M)

SutsProfiled ==
    IF pc = "aborted" THEN {}
    ELSE {suts[i] : i \in {i \in 1..Len(suts) :
                              \/ i < sutIdx
                              \/ i = sutIdx /\ pc = "results"
                              \/ pc \in {"root_files", "done"}}}

\* what is below directory dir of the output: the files as pairs of their
\* path relative to dir and the source file they hold, and the directories
C_FilesBelow(dir) ==
    {<<SubSeq(p, Len(dir) + 1, Len(p)), out[p].data>> :
        p \in {p \in DOMAIN out : IsPrefix(dir, p) /\ IsFile(out, p)}}

C_DirsBelow(dir) ==
    {SubSeq(p, Len(dir) + 1, Len(p)) :
        p \in {p \in DOMAIN out : IsPrefix(dir, p) /\ IsDir(out, p) /\ p # dir}}

\* what candidate folder c contributes to PlatformProfiler: its files flat
\* when it has no subdirectory, else the top-level files of its k-th
\* subdirectory under run{k}
C7_Files(c) ==
    IF ~IsDir(source0, <<c>>) THEN {}
    ELSE IF C_SubDirs(source0, <<c>>) = {}
    THEN {<< <<f>>, <<c, f>> >> : f \in C_TopFiles(source0, <<c>>)}
    ELSE UNION { {<< <<"run" \o IntToStr(C_Rank(source0, <<c>>, d)), f>>, <<c, d, f>> >> :
                     f \in C_TopFiles(source0, <<c, d>>)} :
                 d \in C_SubDirs(source0, <<c>>) }

C7_Dirs(c) ==
    IF ~IsDir(source0, <<c>>) THEN {}
    ELSE {<<"run" \o IntToStr(C_Rank(source0, <<c>>, d))>> : d \in C_SubDirs(source0, <<c>>)}

\* C7: for every SUT, PlatformProfiler holds, for each of the candidate
\* folders PlatformProfile and Host-pp that exists, its files flat when it
\* has no subdirectory, and otherwise the top-level files of its k-th
\* subdirectory (sorted by name) in run{k}; nothing else is there: no loose
\* file of a candidate with subdirectories, nothing from deeper levels.
C7_PlatformProfiler ==
    \A s \in SutsProfiled :
       LET dir == <<C3_Id(s), "PlatformProfiler">>
           want == C7_Files("PlatformProfile") \cup C7_Files("Host-pp")
       IN /\ C_FilesBelow(dir) \subseteq want
          /\ {e[1] : e \in C_FilesBelow(dir)} = {e[1] : e \in want}
          /\ C_DirsBelow(dir) = C7_Dirs("PlatformProfile") \cup C7_Dirs("Host-pp")

\* a SUT has its profile from a PlatformProfile with subdirectories pp1, pp2
\* and a loose file, and from a flat Host-pp
C7_Witness ==
    /\ SutsProfiled # {}
    /\ IsFile(source0, <<"PlatformProfile", "loose.txt">>)
    /\ IsFile(source0, <<"PlatformProfile", "pp1", "deep", "x.csv">>)
    /\ \E s \in SutsProfiled :
          /\ IsFile(out, <<C3_Id(s), "PlatformProfiler", "run1", "p1.csv">>)
          /\ IsFile(out, <<C3_Id(s), "PlatformProfiler", "run2", "p2.csv">>)
          /\ IsFile(out, <<C3_Id(s), "PlatformProfiler", "h.txt">>)

\* the root entries that can be the WP folder of SUT s: "wp-" first, the
\* digits of s last, letter case ignored
C8_Candidates(s) ==
    {c \in RootNames :
        /\ Lower(Prefix(c, 3)) = "wp-"
        /\ \E key \in {k \in {SubSeq(c, i, Len(c)) : i \in 1..(Len(c) + 1)} :
                          C3_IsKeyOf(k, s)} : TRUE}

\* the .json files of folder w, as the set of their names
C8_Jsons(w) ==
    {f \in C_TopFiles(source0, <<w>>) :
        Len(f) >= 5 /\ Lower(SubSeq(f, Len(f) - 4, Len(f))) = ".json"}

\* the position of f among the names fs in sorted order
C8_Position(f, fs) == 1 + Cardinality({g \in fs : StrLess(g, f)})

\* the iteration folders the files of w go to
C8_Iterations(w) ==
    IF C_IterationDirs(source0, <<w>>) = {} THEN {"iteration1"}
    ELSE C_IterationDirs(source0, <<w>>)

C8_Files(w) ==
    {<< <<"run" \o IntToStr(C8_Position(f, C8_Jsons(w))), it, f>>, <<w, f>> >> :
        f \in C8_Jsons(w), it \in C8_Iterations(w)}

C8_Dirs(w) ==
    {<<"run" \o IntToStr(C8_Position(f, C8_Jsons(w)))>> : f \in C8_Jsons(w)} \cup
    {<<"run" \o IntToStr(C8_Position(f, C8_Jsons(w))), it>> :
        f \in C8_Jsons(w), it \in C8_Iterations(w)}

\* C8: for every SUT, WorkloadProfiler holds exactly, for the WP folder
\* matched to it, the .json file at sorted position i in run{i}/<it>/ for
\* every subfolder <it> of the WP folder named iteration..., or in
\* run{i}/iteration1/ when there is no such subfolder, and it is empty when
\* no folder matches.
C8_WorkloadProfiler ==
    \A s \in SutsProfiled :
       LET dir == <<C3_Id(s), "WorkloadProfiler">> IN
       IF C8_Candidates(s) = {}
       THEN C_FilesBelow(dir) = {} /\ C_DirsBelow(dir) = {}
       ELSE \E w \in C8_Candidates(s) :
               C_FilesBelow(dir) = C8_Files(w) /\ C_DirsBelow(dir) = C8_Dirs(w)

\* VM1 has the files of wp-vm1: run_a.json in run1, run_b.json in run2,
\* readme.md nowhere
C8_Witness ==
    /\ "VM1" \in SutsProfiled
    /\ IsFile(source0, <<"wp-vm1", "readme.md">>)
    /\ C_FilesBelow(<<"SUT1", "WorkloadProfiler">>) =
          { << <<"run1", "iteration1", "run_a.json">>, <<"wp-vm1", "run_a.json">> >>,
            << <<"run2", "iteration1", "run_b.json">>, <<"wp-vm1", "run_b.json">> >> }

\* a SUT has the one file of wp-vm11 in both of its iteration folders
C8_WitnessReplicated ==
    \E s \in SutsProfiled :
       C_FilesBelow(<<C3_Id(s), "WorkloadProfiler">>) =
          { << <<"run1", "iteration1", "other.json">>, <<"wp-vm11", "other.json">> >>,
            << <<"run1", "Iteration2", "other.json">>, <<"wp-vm11", "other.json">> >> }

\* the WorkloadProfiler artifacts of a single-system source: the regular
\* files whose name ends, in any letter case, in .json or .tar.gz
C9_IsArchive(name) == Len(name) >= 7 /\ Lower(SubSeq(name, Len(name) - 6, Len(name))) = ".tar.gz"

C9_Artifacts ==
    {f \in C_TopFiles(source0, <<"WorkloadProfiler">>) :
        \/ Len(f) >= 5 /\ Lower(SubSeq(f, Len(f) - 4, Len(f))) = ".json"
        \/ C9_IsArchive(f)}

\* the first artifact in sorted name order
C9_Chosen == CHOOSE a \in C9_Artifacts : \A b \in C9_Artifacts : a = b \/ StrLess(a, b)

\* the number of run slots
C9_N ==
    LET n == Cardinality(C_SubDirs(source0, <<"Logs">>)) IN IF n = 0 THEN 1 ELSE n

\* the files a is replicated as hold the content of artifact a: the file
\* itself, or the files packed in the archive, each under its own name
C9_HoldsContentOf(files, a) ==
    IF ~C9_IsArchive(a)
    THEN files = { << <<a>>, <<"WorkloadProfiler", a>> >> }
    ELSE LET ms == IF ArchiveIsCorrupt(a) THEN {}
                   ELSE {m \in Range(ArchiveMembers(a)) : m.kind = "file" /\ ~m.cut}
         IN /\ {e[1] : e \in files} = {<<BaseName(m.path)>> : m \in ms}
            /\ \A e \in files : \E m \in ms :
                  /\ e[1] = <<BaseName(m.path)>>
                  /\ e[2] = <<"WorkloadProfiler", a, "!">> \o m.path

\* C9: after a single-system invocation of restructure.py over a source
\* with a WorkloadProfiler artifact, SUT1/WorkloadProfiler holds exactly the
\* run slots run1..runN, N the number of subdirectories of Logs (1 when
\* there is none), and each holds exactly an iteration1 directory with the
\* content of the first artifact in sorted name order.
C9_SharedArtifact ==
    (pc = "done" /\ suts = <<>> /\ C9_Artifacts # {}) =>
       LET dir == <<"SUT1", "WorkloadProfiler">> IN
       /\ ChildNames(out, dir) = {"run" \o IntToStr(i) : i \in 1..C9_N}
       /\ \A r \in ChildNames(out, dir) :
             /\ C_DirsBelow(dir \o <<r>>) = {<<"iteration1">>}
             /\ C_TopFiles(out, dir \o <<r>>) = {}
             /\ C9_HoldsContentOf(C_FilesBelow(dir \o <<r, "iteration1">>), C9_Chosen)

\* C10: when a multi-system invocation is done, every regular file directly
\* in source_dir is, under its own name, directly in the directory of every
\* SUT, beside the three category directories and nothing else; no root
\* directory is copied there, and no file is there before the last SUT has
\* been processed.
C10_RootBroadcast ==
    /\ (pc = "done" /\ suts # <<>>) =>
          \A s \in Range(suts) :
             /\ \A f \in C_TopFiles(source0, <<>>) :
                   /\ IsFile(out, <<C3_Id(s), f>>)
                   /\ out[<<C3_Id(s), f>>].data = <<f>>
             /\ ChildNames(out, <<C3_Id(s)>>) =
                   {"PlatformProfiler", "WorkloadProfiler", "Results"} \cup C_TopFiles(source0, <<>>)
    /\ pc \in MultiPcs =>
          \A id \in ChildNames(out, <<>>) : C_TopFiles(out, <<id>>) = {}

\* a finished run over two SUTs and a root with files and a directory
C10_Witness ==
    /\ pc = "done"
    /\ {"VM1", "vm2"} \subseteq Range(suts)
    /\ IsDir(source0, <<"xvm">>)
    /\ IsFile(out, <<"SUT1", "summary.txt">>) /\ IsFile(out, <<"SUT2", "summary.txt">>)
    /\ IsFile(out, <<"SUT1", "data.csv">>) /\ IsFile(out, <<"SUT2", "data.csv">>)

\* the single-system pipeline (of either file) is past its root-file step
C11_Routed ==
    suts = <<>> /\ (pc = "cleanup" \/ (pc = "done" /\ variant # "v2"))

C11_EndsIn(name, ext) ==
    Len(name) >= Len(ext) /\ Lower(SubSeq(name, Len(name) - Len(ext) + 1, Len(name))) = ext

\* C11: in single-system mode a root-level regular file named (in any
\* letter case) epyc_manual_result.json is copied to the SUT1 root and
\* nowhere else, every other root-level regular file ending in .json or
\* .txt is copied into SUT1/Results/run1/iteration1/instance1/ and nowhere
\* else, however many runs there are, and any other root-level file is
\* copied nowhere.
C11_RootRouting ==
    C11_Routed =>
       \A f \in C_TopFiles(source0, <<>>) :
          C_CopiesOf(<<>>, <<f>>) =
             IF Lower(f) = "epyc_manual_result.json" THEN { <<"SUT1", f>> }
             ELSE IF C11_EndsIn(f, ".json") \/ C11_EndsIn(f, ".txt")
             THEN { <<"SUT1", "Results", "run1", "iteration1", "instance1", f>> }
             ELSE {}

\* the artifact chosen in a single-system source is an archive on which
\* extraction fails with TarError
C12_ExtractionFails ==
    /\ suts = <<>> /\ pc \notin {"start", "identify"}
    /\ C9_Artifacts # {}
    /\ C9_IsArchive(C9_Chosen) /\ ArchiveIsCorrupt(C9_Chosen)

\* C12: when the extraction of the WorkloadProfiler archive fails with an
\* archive error, no file from that archive appears in the output, and the
\* later steps are still performed: when the invocation is done the
\* PlatformProfile files, the Logs files and the root-level .json/.txt
\* files are in the output.
C12_ExtractionFailureTolerated ==
    C12_ExtractionFails =>
       /\ \A p \in DOMAIN out :
             IsFile(out, p) => ~IsPrefix(<<"WorkloadProfiler", C9_Chosen, "!">>, out[p].data)
       /\ pc = "done" =>
             /\ \A f \in C_TopFiles(source0, <<"PlatformProfile">>) :
                   IsFile(out, <<"SUT1", "PlatformProfiler", f>>)
             /\ \A q \in DOMAIN source0 :
                   (/\ IsFile(source0, q) /\ Len(q) >= 2 /\ q[1] = "Logs"
                    /\ (C_SubDirs(source0, <<"Logs">>) = {} \/ Len(q) >= 3)) =>
                      C_CopiesOf(<<"SUT1", "Results">>, q) # {}
             /\ \A f \in C_TopFiles(source0, <<>>) :
                   (C11_EndsIn(f, ".json") \/ C11_EndsIn(f, ".txt")) =>
                      C_CopiesOf(<<"SUT1">>, <<f>>) # {}

\* name f comes before name g in the listings of this run
C13_Before(f, g) == IF enumRev THEN StrLess(g, f) ELSE StrLess(f, g)

\* where the broadcast puts root file f for the k-th SUT, and where the
\* single-system root step puts root file f (<<>>: nowhere)
C13_BroadcastDest(f, k) == <<C3_Id(suts[k]), f>>

C13_SingleDest(f) ==
    IF Lower(f) = "epyc_manual_result.json" THEN <<"SUT1", f>>
    ELSE IF C11_EndsIn(f, ".json") \/ C11_EndsIn(f, ".txt")
    THEN <<"SUT1", "Results", "run1", "iteration1", "instance1", f>>
    ELSE <<>>

\* the broadcast aborted: the copies before the first one whose destination
\* is a directory were made, that one and the later ones were not
C13_BroadcastStops ==
    LET files == C_TopFiles(source0, <<>>)
        pairs == files \X (1..Len(suts))
        Earlier(a, b) == C13_Before(a[1], b[1]) \/ (a[1] = b[1] /\ a[2] < b[2])
        fails == {a \in pairs : IsDir(out, C13_BroadcastDest(a[1], a[2]))}
    IN /\ fails # {}
       /\ \A a \in pairs :
             LET dest == C13_BroadcastDest(a[1], a[2]) IN
             IF \E b \in fails : b = a \/ Earlier(b, a)
             THEN (\A c \in pairs : C13_BroadcastDest(c[1], c[2]) = dest =>
                      \E b \in fails : b = c \/ Earlier(b, c))
                     => ~IsFile(out', dest)
             ELSE IsFile(out', dest)

\* the single-system root step aborted, in the same way
C13_SingleRootStops ==
    LET files == {f \in C_TopFiles(source0, <<>>) : C13_SingleDest(f) # <<>>}
        fails == {f \in files : IsDir(out, C13_SingleDest(f))}
    IN /\ fails # {}
       /\ \A f \in files :
             IF \E g \in fails : g = f \/ C13_Before(g, f)
             THEN ~IsFile(out', C13_SingleDest(f))
             ELSE IsFile(out', C13_SingleDest(f))

\* C13: a failing copy or directory creation aborts the invocation at that
\* step: what was written before is left in place with what the failing
\* section wrote up to the failure, nothing later is copied or created,
\* and after the abort nothing at all happens.
C13_FatalWriteFailure ==
    [][ /\ pc # "aborted"
        /\ pc' = "aborted" =>
              /\ \A p \in DOMAIN out : p \in DOMAIN out' /\ out'[p].kind = out[p].kind
              /\ pc = "root_files" => C13_BroadcastStops
              /\ pc = "single_root" => C13_SingleRootStops ]_vars

\* the broadcast aborted at its first file, Results: the skeleton is there
\* and summary.txt, which comes later in the listing, was copied nowhere
C13_Witness ==
    /\ pc = "aborted" /\ suts # <<>> /\ ~enumRev
    /\ IsFile(source0, <<"Results">>) /\ IsFile(source0, <<"summary.txt">>)
    /\ \A k \in 1..Len(suts) :
          /\ IsDir(out, <<C3_Id(suts[k]), "Results">>)
          /\ ~Exists(out, <<C3_Id(suts[k]), "summary.txt">>)

-----------------------------------------------------------------------------
(* C14: determinism across invocations.                                    *)

-----------------------------------------------------------------------------
(* C15: the Logs folder against the Results mapper.                        *)

\* the files the Results mapper of multi-system mode writes for one run
\* directory, relative to the run{n} folder it is given
C15_RunMachineFiles(run_path, run_dir) ==
    LET st == ExecIn(enumRev, [src |-> source0, out |-> EmptyTree, ok |-> TRUE],
                     RunOps("restructure", source0, run_path, run_dir))
    IN {<<SubSeq(p, Len(run_dir) + 1, Len(p)), st.out[p].data>> :
           p \in {p \in DOMAIN st.out : IsPrefix(run_dir, p) /\ IsFile(st.out, p)}}

\* C15: in single-system mode, once the Logs section has completed, the
\* files below SUT1/Results/run{n} are those the Results mapper of
\* multi-system mode writes for the n-th subfolder of Logs (in sorted
\* order) taken as a run directory: iteration folders kept by name, files
\* classified into instance{m} by their "log-run" number.
C15_LogsLikeResults ==
    (suts = <<>> /\ pc = "single_root") =>
        LET subs == Sorted(C_SubDirs(source0, <<"Logs">>))
        IN \A n \in 1..Len(subs) :
              LET run_dir == <<"SUT1", "Results", RunName(n)>>
              IN C_FilesBelow(run_dir) = C15_RunMachineFiles(<<"Logs", subs[n]>>, run_dir)

-----------------------------------------------------------------------------
(* C16: PlatformProfiler in single-system mode.                            *)

\* the files the PlatformProfiler mapper of multi-system mode writes from
\* the candidates PlatformProfile and Host-pp, relative to its destination
C16_MultiMapperFiles(platform_profiler_dir) ==
    LET st == ExecIn(enumRev, [src |-> source0, out |-> EmptyTree, ok |-> TRUE],
                     <<OpMakeDirs("out", platform_profiler_dir)>> \o
                     PlatformProfilerOps(source0, platform_profiler_dir))
    IN {<<SubSeq(p, Len(platform_profiler_dir) + 1, Len(p)), st.out[p].data>> :
           p \in {p \in DOMAIN st.out :
                     IsPrefix(platform_profiler_dir, p) /\ IsFile(st.out, p)}}

\* C16: in single-system mode, once the PlatformProfile section has
\* completed, the files below SUT1/PlatformProfiler are those the mapper
\* of multi-system mode writes: both PlatformProfile and Host-pp applied,
\* subfolders sorted and written as run1, run2, ... holding their
\* top-level files.
C16_PlatformLikeMulti ==
    (suts = <<>> /\ pc = "replicate") =>
        C_FilesBelow(<<"SUT1", "PlatformProfiler">>)
            = C16_MultiMapperFiles(<<"SUT1", "PlatformProfiler">>)

-----------------------------------------------------------------------------
(* C17: raw SUT folders that share a canonical id.                         *)

\* what the sections of one SUT do when no other SUT has written before
C17_Alone(raw) ==
    LET dir == <<C3_Id(raw)>>
    IN ExecIn(enumRev, [src |-> source0, out |-> EmptyTree, ok |-> TRUE],
              <<OpMakeDirs("out", <<>>)>> \o SkeletonOps(C3_Id(raw)) \o
              PlatformProfilerOps(source0, dir \o <<"PlatformProfiler">>) \o
              WorkloadProfilerOps(source0, raw, dir \o <<"WorkloadProfiler">>) \o
              ResultsOps(variant, source0, <<raw>>, dir \o <<"Results">>))

C17_FilesOf(tree) == {p \in DOMAIN tree : IsFile(tree, p)}

\* the pairs of positions in suts, earlier and later, with the same canonical id
C17_Merged ==
    {ij \in (1..Len(suts)) \X (1..Len(suts)) :
        ij[1] < ij[2] /\ C3_Id(suts[ij[1]]) = C3_Id(suts[ij[2]])}

\* C17: when two raw SUT folders normalize to the same canonical id, the
\* later one does not abort the invocation by meeting what the earlier one
\* wrote (it aborts only if its sections fail on their own), and once the
\* later one has been processed the shared SUT directory holds every file either
\* of them produces, a path both produce holding the content of the later.
C17_Merging ==
    [][ \A ij \in C17_Merged :
          LET first == C17_Alone(suts[ij[1]])
              second == C17_Alone(suts[ij[2]])
          IN /\ ( /\ pc \in {"skeleton", "platform", "workload", "results"}
                  /\ sutIdx = ij[2]
                  /\ pc' = "aborted" ) => ~second.ok
             /\ ( /\ pc = "results"
                  /\ sutIdx = ij[2]
                  /\ pc' # "aborted"
                  /\ Cardinality(C17_Merged) = 1 ) =>
                   /\ C17_FilesOf(first.out) \cup C17_FilesOf(second.out)
                          \subseteq C17_FilesOf(out')
                   /\ \A p \in C17_FilesOf(second.out) :
                          out'[p].data = second.out[p].data ]_vars

-----------------------------------------------------------------------------
(* C18: the throwaway extraction folder at the end of the invocation.      *)

\* the throwaway extraction folders present in the source directory
C18_Throwaway ==
    {p \in DOMAIN source :
        /\ Len(p) = 2
        /\ p[1] = "WorkloadProfiler"
        /\ Prefix(p[2], 18) = "extracted_wp_temp_"}

\* C18: in single-system mode, when the invocation has ended, by completing
\* or by an uncaught error, no throwaway extraction folder exists.
C18_ThrowawayRemoved ==
    (suts = <<>> /\ pc \in {"done", "aborted"}) => C18_Throwaway = {}

\* the same for an invocation that ran to completion
C18_RemovedOnCompletion ==
    (suts = <<>> /\ pc = "done") => C18_Throwaway = {}

-----------------------------------------------------------------------------
(* C19: when the skeleton of a SUT is created.                             *)

C19_HasSkeleton(id) ==
    /\ IsDir(out, <<id>>)
    /\ IsDir(out, <<id, "PlatformProfiler">>)
    /\ IsDir(out, <<id, "WorkloadProfiler">>)
    /\ IsDir(out, <<id, "Results">>)

C19_SomeArtifactWritten == \E p \in DOMAIN out : IsFile(out, p)

\* C19 as stated: in multi-system mode, in every state in which some
\* artifact file has been written, the skeleton of every discovered SUT is
\* present.
C19_AsStated ==
    (suts # <<>> /\ C19_SomeArtifactWritten) =>
        \A i \in 1..Len(suts) : C19_HasSkeleton(C3_Id(suts[i]))

\* C19, amended: in multi-system mode the skeleton of a SUT is created when
\* the loop reaches that SUT, before anything is written for it: every
\* file of the output lies below a SUT directory whose three folders
\* exist, every SUT the loop has reached has its skeleton, and when every
\* SUT has been processed the skeleton of every discovered SUT is present.
C19_SkeletonPerSut ==
    suts # <<>> =>
        /\ \A p \in DOMAIN out : IsFile(out, p) => C19_HasSkeleton(p[1])
        /\ \A i \in 1..Len(suts) :
              ( /\ pc # "aborted"
                /\ \/ i < sutIdx
                   \/ i = sutIdx /\ pc \in {"platform", "workload", "results"}
                   \/ pc \in {"root_files", "done"} )
              => C19_HasSkeleton(C3_Id(suts[i]))

\* two SUTs with different canonical ids have been processed, artifacts
\* written for both
C19_Witness ==
    /\ pc = "done"
    /\ \E i, j \in 1..Len(suts) :
          /\ C3_Id(suts[i]) # C3_Id(suts[j])
          /\ \E p, q \in DOMAIN out :
                /\ IsFile(out, p) /\ p[1] = C3_Id(suts[i]) /\ Len(p) > 2
                /\ IsFile(out, q) /\ q[1] = C3_Id(suts[j]) /\ Len(q) > 2

-----------------------------------------------------------------------------
(* C20: which root entry is the WorkloadProfiler folder of a SUT.          *)

\* the candidate of SUT s that the listing of source_dir yields first
C20_First(s) ==
    CHOOSE c \in C8_Candidates(s) :
        \A d \in C8_Candidates(s) \ {c} : C13_Before(c, d)

C20_WitnessShared ==
    /\ {"VM1", "sutB"} \subseteq SutsProfiled
    /\ \E f \in C_FilesBelow(<<"SUT1", "WorkloadProfiler">>) :
          f[2] = <<"wp-vm11", "other.json">>
    /\ \E f \in C_FilesBelow(<<"SUTB", "WorkloadProfiler">>) :
          f[2] = <<"wp-vm11", "other.json">>

-----------------------------------------------------------------------------
(* C21: a run directory without iteration folders.                         *)

\* the folder whose top-level entries are classified: BenchmarkLog when the
\* run directory has one
C21_Base(run) ==
    IF Exists(source0, run \o <<"BenchmarkLog">>) THEN run \o <<"BenchmarkLog">> ELSE run

\* the run directories of SUT s without a subdirectory named iteration...
C21_PlainRuns(s) ==
    {d \in C_SubDirs(source0, <<s>>) : C_IterationDirs(source0, <<s, d>>) = {}}

\* C21: for a run directory without iteration folders, the regular files
\* directly in its BenchmarkLog subdirectory, or directly in the run
\* directory when it has no BenchmarkLog, are each copied, and only below
\* Results/run{n}/iteration1/; every other file of the run directory (in a
\* subdirectory, or directly in the run directory when BenchmarkLog exists)
\* is copied nowhere.
C21_NoIterations ==
    \A i \in 1..Len(suts) : \A d \in C21_PlainRuns(suts[i]) :
        LET s == suts[i]
            run == <<s, d>>
            dest == <<C3_Id(s), "Results",
                      "run" \o IntToStr(C_Rank(source0, <<s>>, d)), "iteration1">>
        IN \A q \in DOMAIN source0 :
              (IsFile(source0, q) /\ IsPrefix(run, q)) =>
                 IF Parent(q) = C21_Base(run)
                 THEN /\ \A p \in C_CopiesOf(<<>>, q) :
                            IsPrefix(dest, p) /\ Len(p) = Len(dest) + 2
                      /\ s \in SutJustDone => C_CopiesOf(<<>>, q) # {}
                 ELSE C_CopiesOf(<<>>, q) = {}

\* vm2 has just been processed: of its run directory rb the file in
\* BenchmarkLog is in run2/iteration1, while top.txt beside BenchmarkLog
\* and keep.txt in a subdirectory of BenchmarkLog are nowhere
C21_Witness ==
    /\ "vm2" \in SutJustDone
    /\ C_CopiesOf(<<>>, <<"vm2", "rb", "BenchmarkLog", "log-run4-c.log">>) =
          { <<"SUT2", "Results", "run2", "iteration1", "instance4", "log-run4-c.log">> }
    /\ IsFile(source0, <<"vm2", "rb", "top.txt">>)
    /\ IsFile(source0, <<"vm2", "rb", "BenchmarkLog", "nested", "keep.txt">>)
    /\ C_CopiesOf(<<>>, <<"vm2", "rb", "top.txt">>) = {}

-----------------------------------------------------------------------------
(* C22: iteration folders that hold instance folders.                      *)

\* where the instance folder inst of iteration it of run directory d of SUT
\* s goes
C22_Dest(s, d, it, inst) ==
    <<C3_Id(s), "Results", "run" \o IntToStr(C_Rank(source0, <<s>>, d)), it, inst>>

\* C22: when the Results section of a SUT completes, every file below a
\* subdirectory inst of an iteration directory it of a run directory has
\* exactly one copy, at the same relative path below
\* Results/run{n}/it/inst/; the section does not abort when such a
\* destination exists already, and every file that was in the output
\* before is still a file of the output (its content replaced when a copied
\* file has its path).
C22_InstanceFolders ==
    [][ pc = "results" =>
          LET s == suts[sutIdx] IN
          \A d \in C_SubDirs(source0, <<s>>) :
          \A it \in C_IterationDirs(source0, <<s, d>>) :
          \A inst \in C_SubDirs(source0, <<s, d, it>>) :
             LET from == <<s, d, it, inst>>
                 dest == C22_Dest(s, d, it, inst)
             IN /\ Exists(out, dest) => pc' # "aborted"
                /\ pc' # "aborted" =>
                     /\ \A q \in DOMAIN source0 :
                           (IsFile(source0, q) /\ IsPrefix(from, q)) =>
                              {p \in DOMAIN out' : out'[p].kind = "file" /\ out'[p].data = q}
                                 = {dest \o SubSeq(q, Len(from) + 1, Len(q))}
                     /\ \A p \in DOMAIN out :
                           IsFile(out, p) => p \in DOMAIN out' /\ out'[p].kind = "file"
      ]_vars

\* SUT1 was processed after VM1 into the same run2/iteration1/instA: its
\* deep.log has replaced the one of VM1, and vm.log of VM1 is still there
C22_Witness ==
    /\ pc \in {"root_files", "done"}
    /\ suts = <<"VM1", "SUT1">>
    /\ IsFile(source0, <<"VM1", "r3", "iteration1", "instA", "sub", "deep.log">>)
    /\ IsFile(out, <<"SUT1", "Results", "run2", "iteration1", "instA", "sub", "deep.log">>)
    /\ out[<<"SUT1", "Results", "run2", "iteration1", "instA", "sub", "deep.log">>].data
          = <<"SUT1", "r3", "iteration1", "instA", "sub", "deep.log">>
    /\ IsFile(out, <<"SUT1", "Results", "run2", "iteration1", "instA", "sub", "vm.log">>)

-----------------------------------------------------------------------------
(* C23: WorkloadProfiler of a single system in restructurev3.py.           *)

C23_IsArchive(name) == Len(name) >= 7 /\ SubSeq(name, Len(name) - 6, Len(name)) = ".tar.gz"

\* the entries of WorkloadProfiler that take a run slot
C23_Slots ==
    {n \in ChildNames(source0, <<"WorkloadProfiler">>) :
        IsFile(source0, <<"WorkloadProfiler", n>>) \/ C23_IsArchive(n)}

C23_Index(n) == 1 + Cardinality({m \in C23_Slots : StrLess(m, n)})

\* the names of the files extraction leaves for archive a
C23_Extracted(a) ==
    {BaseName(m.path) : m \in {m \in Range(ArchiveMembers(a)) : m.kind = "file"}}

\* C23: after the WorkloadProfiler section of restructurev3.py in
\* single-system mode, the i-th entry of the source WorkloadProfiler folder,
\* in sorted name order and counting regular files and *.tar.gz entries
\* only, is what SUT1/WorkloadProfiler/run{i}/iteration1/ holds: the file
\* itself, or the files extracted from the archive side by side (none when
\* nothing could be extracted); there are as many run{i} as such entries,
\* whatever the number of Logs subdirectories.
C23_PerArtifact ==
    (variant = "v3" /\ suts = <<>> /\ pc \in {"v3_logs", "v3_root", "done"}) =>
        LET dir == <<"SUT1", "WorkloadProfiler">> IN
        /\ C_DirsBelow(dir) =
              UNION { { <<RunName(C23_Index(n))>>, <<RunName(C23_Index(n)), "iteration1">> } :
                      n \in C23_Slots }
        /\ \A n \in C23_Slots :
              LET files == C_FilesBelow(dir \o <<RunName(C23_Index(n)), "iteration1">>)
              IN IF C23_IsArchive(n)
                 THEN /\ {e[1] : e \in files} = {<<f>> : f \in C23_Extracted(n)}
                      /\ \A e \in files : IsPrefix(<<"WorkloadProfiler", n, "!">>, e[2])
                 ELSE files = { << <<n>>, <<"WorkloadProfiler", n>> >> }

\* arch.tar.gz, the folder aux and bad.tar.gz, beside three Logs folders:
\* the archive is in run1, bad.tar.gz has the empty run2, aux has no run
C23_Witness ==
    /\ variant = "v3" /\ pc = "done"
    /\ IsDir(source0, <<"WorkloadProfiler", "aux">>)
    /\ Cardinality(C_SubDirs(source0, <<"Logs">>)) = 3
    /\ IsFile(out, <<"SUT1", "WorkloadProfiler", "run1", "iteration1", "trace.csv">>)
    /\ IsDir(out, <<"SUT1", "WorkloadProfiler", "run2", "iteration1">>)
    /\ C_FilesBelow(<<"SUT1", "WorkloadProfiler", "run2">>) = {}
    /\ ~Exists(out, <<"SUT1", "WorkloadProfiler", "run3">>)

-----------------------------------------------------------------------------
(* C24: a subdirectory among the entries of an iteration directory.        *)

\* the subdirectories of an iteration directory that are not named instance...
C24_OtherDirs(s, d, it) ==
    {x \in C_SubDirs(source0, <<s, d, it>>) : Lower(Prefix(x, 8)) # "instance"}

\* C24: when the Results section of a SUT has completed, a subdirectory x
\* found among the top-level entries of an iteration directory that holds
\* no instance folder has been copied wholesale to
\* Results/run{n}/{iteration}/instance1/x: each of its files has its copy
\* there, at the same relative path.
C24_SubdirIntoInstance1 ==
    \A s \in SutJustDone : \A d \in C_SubDirs(source0, <<s>>) :
    \A it \in C_IterationDirs(source0, <<s, d>>) :
       (C24_OtherDirs(s, d, it) = C_SubDirs(source0, <<s, d, it>>)) =>
          \A x \in C24_OtherDirs(s, d, it) : \A q \in DOMAIN source0 :
             (IsFile(source0, q) /\ IsPrefix(<<s, d, it, x>>, q)) =>
                <<C3_Id(s), "Results", "run" \o IntToStr(C_Rank(source0, <<s>>, d)),
                  it, "instance1">> \o SubSeq(q, 4, Len(q))
                   \in C_CopiesOf(<<>>, q)

\* no file of the output was put below an instance1 folder together with
\* the name of the subdirectory of the iteration directory it comes from
C24_NeverIntoInstance1 ==
    suts # <<>> =>
       \A p \in DOMAIN out :
          (IsFile(out, p) /\ Len(p) >= 7 /\ p[2] = "Results" /\ Len(out[p].data) >= 5) =>
             ~(p[5] = "instance1" /\ SubSeq(p, 6, Len(p)) = SubSeq(out[p].data, 4, Len(out[p].data)))

-----------------------------------------------------------------------------
(* C25: regular files beside the subdirectories of an iteration directory. *)

\* C25: in multi-system mode, a regular file lying directly in an iteration
\* directory that contains at least one subdirectory has no copy anywhere
\* in the output, at any point of the invocation; only what the
\* subdirectories hold is copied.
C25_LooseFilesDropped ==
    \A i \in 1..Len(suts) : \A d \in C_SubDirs(source0, <<suts[i]>>) :
    \A it \in C_IterationDirs(source0, <<suts[i], d>>) :
       C_SubDirs(source0, <<suts[i], d, it>>) # {} =>
          \A f \in C_TopFiles(source0, <<suts[i], d, it>>) :
             C_CopiesOf(<<>>, <<suts[i], d, it, f>>) = {}

\* the invocation is done: of VM1/r3/iteration1 the file out.log of folder
\* instA is in the output, loose.txt beside instA is not
C25_Witness ==
    /\ pc = "done"
    /\ suts = <<"VM1">>
    /\ IsFile(source0, <<"VM1", "r3", "iteration1", "loose.txt">>)
    /\ C_CopiesOf(<<"SUT1", "Results">>, <<"VM1", "r3", "iteration1", "instA", "out.log">>) # {}
    /\ C_CopiesOf(<<>>, <<"VM1", "r3", "iteration1", "loose.txt">>) = {}
====
